---- MODULE Spec2Model ----
(***************************************************************************)
(* VibeCheck MCP server v1.5.0: prompt scoring, security guardrail,        *)
(* context suggestion, persona registry, history log and the tool          *)
(* handlers that tie them together.                                        *)
(*                                                                         *)
(* Text is modelled as TLA+ strings and every regular expression of the    *)
(* source is an operator over the characters of the string.  Glyphs that   *)
(* are not ASCII (emoji in labels, the em dash of one persona constraint)  *)
(* are left out of the string constants; none of them takes part in a      *)
(* decision of the code.                                                   *)
(***************************************************************************)
EXTENDS Integers, Sequences, FiniteSets, TLC

(***************************************************************************)
(* Characters and strings.  A character is a string of length one.         *)
(***************************************************************************)
At(s, i) == SubSeq(s, i, i)

UpperAlphabet == "ABCDEFGHIJKLMNOPQRSTUVWXYZ"
LowerAlphabet == "abcdefghijklmnopqrstuvwxyz"

LowerMap == [c \in {At(UpperAlphabet, i) : i \in 1..26} |->
                At(LowerAlphabet, CHOOSE i \in 1..26 : At(UpperAlphabet, i) = c)]

LowerLetters == {At(LowerAlphabet, i) : i \in 1..26}

Digits == {"0", "1", "2", "3", "4", "5", "6", "7", "8", "9"}

\* \s of a JavaScript regular expression (the ASCII members)
IsWs(c) == c \in {" ", "\t", "\n", "\r", "\f"}

IsDigit(c) == c \in Digits

IsLowerAlpha(c) == c \in LowerLetters

\* a line terminator: the characters "." of a regular expression refuses
IsNewline(c) == c \in {"\n", "\r"}

LowerChar(c) == IF c \in DOMAIN LowerMap THEN LowerMap[c] ELSE c

\* s[lo..hi] in lower case (the halves are mapped separately to keep
\* the evaluation shallow)
RECURSIVE LowerRange(_, _, _)
LowerRange(s, lo, hi) ==
    IF lo > hi THEN ""
    ELSE IF lo = hi THEN LowerChar(At(s, lo))
    ELSE LET mid == (lo + hi) \div 2
         IN  LowerRange(s, lo, mid) \o LowerRange(s, mid + 1, hi)

\* String.prototype.toLowerCase
toLowerCase(s) == LowerRange(s, 1, Len(s))

\* w occurs in s starting at position i
MatchAt(s, w, i) ==
    /\ i >= 1
    /\ i + Len(w) - 1 <= Len(s)
    /\ SubSeq(s, i, i + Len(w) - 1) = w

\* String.prototype.includes
includes(s, w) == \E i \in 1..(Len(s) - Len(w) + 1) : MatchAt(s, w, i)

IncludesAny(s, ws) == \E w \in ws : includes(s, w)

\* String.prototype.startsWith
startsWith(s, w) == MatchAt(s, w, 1)

\* the regular expression  w \s{minWs,} (a1|a2|...)  matched at position i
WsThenAnyAt(s, w, minWs, alts, i) ==
    /\ MatchAt(s, w, i)
    /\ \E j \in (i + Len(w) + minWs)..(Len(s) + 1) :
           /\ \A k \in (i + Len(w))..(j - 1) : IsWs(At(s, k))
           /\ \E a \in alts : MatchAt(s, a, j)

\* the same expression searched anywhere in s
WsThenAny(s, w, minWs, alts) ==
    \E i \in 1..Len(s) : WsThenAnyAt(s, w, minWs, alts, i)

\* the regular expression  w \s* \d+  searched in s
WsThenDigit(s, w) ==
    \E i \in 1..Len(s) :
        /\ MatchAt(s, w, i)
        /\ \E j \in (i + Len(w))..Len(s) :
               /\ \A k \in (i + Len(w))..(j - 1) : IsWs(At(s, k))
               /\ IsDigit(At(s, j))

\* the regular expression  a .* b  searched in s ("." stays on one line)
DotStarBetween(s, a, b) ==
    \E i \in 1..Len(s) :
        /\ MatchAt(s, a, i)
        /\ \E j \in (i + Len(a))..Len(s) :
               /\ MatchAt(s, b, j)
               /\ \A k \in (i + Len(a))..(j - 1) : ~IsNewline(At(s, k))

\* the end of the run of non-white-space characters that starts at i
RECURSIVE TokenEnd(_, _)
TokenEnd(s, i) ==
    IF i = Len(s) \/ IsWs(At(s, i + 1)) THEN i ELSE TokenEnd(s, i + 1)

\* the non-empty pieces of s.split(/\s+/) that start in lo..hi, in order
RECURSIVE TokensIn(_, _, _)
TokensIn(s, lo, hi) ==
    IF lo > hi THEN <<>>
    ELSE IF lo = hi
         THEN IF ~IsWs(At(s, lo)) /\ (lo = 1 \/ IsWs(At(s, lo - 1)))
              THEN << SubSeq(s, lo, TokenEnd(s, lo)) >>
              ELSE <<>>
    ELSE LET mid == (lo + hi) \div 2
         IN  TokensIn(s, lo, mid) \o TokensIn(s, mid + 1, hi)

\* String.prototype.split(/\s+/) without the empty strings that a leading
\* or trailing run of white space produces (every caller filters by length)
splitWs(s) == TokensIn(s, 1, Len(s))

\* [...new Set(seq)]: the distinct elements in first-occurrence order
RECURSIVE DedupFrom(_, _, _)
DedupFrom(seq, i, acc) ==
    IF i > Len(seq) THEN acc
    ELSE IF \E k \in 1..Len(acc) : acc[k] = seq[i]
         THEN DedupFrom(seq, i + 1, acc)
         ELSE DedupFrom(seq, i + 1, Append(acc, seq[i]))

\* the elements with their repetitions
KeepRepeats(seq) == seq

Dedup(seq) == DedupFrom(seq, 1, <<>>)

Min(a, b) == IF a < b THEN a ELSE b

(***************************************************************************)
(* Security guardrail (security.ts)                                        *)
(***************************************************************************)
\* The rule catalog, in source order.  Each pattern carries the i flag, so
\* PatternTest applies it to the lower-cased text.
SECURITY_PATTERNS == <<
    [pattern |-> 1, flag |-> "Attempts to disable authentication/authorization"],
    [pattern |-> 2, flag |-> "Attempts to bypass security mechanisms"],
    [pattern |-> 3, flag |-> "Attempts to skip input validation"],
    [pattern |-> 4, flag |-> "Attempts to hardcode secrets"],
    [pattern |-> 5, flag |-> "Attempts to remove security protections"],
    [pattern |-> 6, flag |-> "References dangerous code execution functions"],
    [pattern |-> 7, flag |-> "Uses elevated privileges or bypasses verification"],
    [pattern |-> 8, flag |-> "Destructive database operations detected"] >>

\* /rate.?limit/ at position j of s
RateLimitAt(s, j) ==
    \/ MatchAt(s, "ratelimit", j)
    \/ /\ MatchAt(s, "rate", j)
       /\ j + 4 <= Len(s)
       /\ ~IsNewline(At(s, j + 4))
       /\ MatchAt(s, "limit", j + 5)

\* /delete\s+from.*where\s+1/ searched in s
DeleteFromWhere(s) ==
    \E i \in 1..Len(s) :
        /\ MatchAt(s, "delete", i)
        /\ \E j \in (i + 7)..Len(s) :
              /\ \A n \in (i + 6)..(j - 1) : IsWs(At(s, n))
              /\ MatchAt(s, "from", j)
              /\ \E m \in (j + 4)..Len(s) :
                    /\ \A n \in (j + 4)..(m - 1) : ~IsNewline(At(s, n))
                    /\ WsThenAnyAt(s, "where", 1, {"1"}, m)

\* the pattern of rule k searched in the lower-cased text s
PatternTestLower(k, s) ==
    CASE k = 1 -> WsThenAny(s, "disable", 0, {"auth", "authentication", "authorization"})
      [] k = 2 -> WsThenAny(s, "bypass", 0, {"auth", "security", "login", "password", "verification"})
      [] k = 3 -> WsThenAny(s, "skip", 0, {"validation", "sanitiz", "check", "verify"})
      [] k = 4 -> WsThenAny(s, "hardcode", 0, {"password", "secret", "key", "token", "credential"})
      [] k = 5 -> \/ WsThenAny(s, "remove", 0, {"csrf", "cors", "firewall"})
                  \/ \E i \in 1..Len(s) :
                        /\ MatchAt(s, "remove", i)
                        /\ \E j \in (i + 6)..Len(s) :
                              /\ \A n \in (i + 6)..(j - 1) : IsWs(At(s, n))
                              /\ RateLimitAt(s, j)
      [] k = 6 -> \/ WsThenAny(s, "eval", 0, {"("})
                  \/ WsThenAny(s, "exec", 0, {"("})
                  \/ WsThenAny(s, "system", 0, {"("})
      [] k = 7 -> \/ includes(s, "sudo")
                  \/ WsThenAny(s, "chmod", 1, {"777"})
                  \/ includes(s, "--no-verify")
      [] k = 8 -> \/ WsThenAny(s, "drop", 1, {"table"})
                  \/ DeleteFromWhere(s)

\* pattern.test(prompt) for the pattern of rule k
PatternTest(k, prompt) == PatternTestLower(k, toLowerCase(prompt))

\* a check that stops at the first rule that matches
FilterFirstOnly(prompt) ==
    LET hit == SelectSeq(SECURITY_PATTERNS, LAMBDA r : PatternTest(r.pattern, prompt))
    IN  SubSeq(hit, 1, Min(1, Len(hit)))

\* SECURITY_PATTERNS.filter(({pattern}) => pattern.test(prompt))
FilterPatterns(prompt) ==
    SelectSeq(SECURITY_PATTERNS, LAMBDA r : PatternTest(r.pattern, prompt))

\* securityCheck: the flags of the matching rules
securityCheck(prompt) ==
    LET hit == FilterPatterns(prompt)
    IN  [i \in 1..Len(hit) |-> hit[i].flag]

(***************************************************************************)
(* Optional arguments: <<>> is undefined, <<v>> is the value v             *)
(***************************************************************************)
None == <<>>
Some(v) == <<v>>
IsSome(o) == Len(o) > 0

(***************************************************************************)
(* Configuration (config.ts)                                               *)
(***************************************************************************)
\* DEFAULT_CONFIG
DEFAULT_CONFIG == [
    ignoredDirs |-> {"node_modules", ".git", "dist", ".next", ".nuxt", ".output",
                     "build", "coverage", "__pycache__", ".vscode", ".idea",
                     "vendor", ".turbo", ".cache", ".vibecheck"},
    ignoredExtensions |-> {".lock", ".log", ".map", ".min.js", ".min.css",
                           ".ico", ".png", ".jpg", ".jpeg", ".gif", ".svg",
                           ".woff", ".woff2", ".ttf", ".eot"},
    maxScanFiles |-> 500,
    maxScanDepth |-> 10 ]

\* the empty object {}
EmptyConfig == [x \in {} |-> 0]

\* loadConfig: rc is the .vibecheckrc file of the project root.  A missing
\* file, unparsable text and JSON that is not an object all give {}.
loadConfig(rc) ==
    IF rc.kind = "object" THEN rc.value ELSE EmptyConfig

(***************************************************************************)
(* Personas (personas.ts)                                                  *)
(***************************************************************************)
BUILTIN_PERSONAS ==
    "default" :> [
        name |-> "Default",
        expertConstraints |-> <<
            "Follow SOLID principles and clean architecture patterns.",
            "Write self-documenting code with meaningful variable names.",
            "Include error handling for all edge cases.",
            "Ensure backward compatibility unless explicitly breaking." >> ] @@
    "senior engineer" :> [
        name |-> "Senior Engineer",
        expertConstraints |-> <<
            "Design for horizontal scalability from day one.",
            "Consider failure modes: what happens when this service goes down?",
            "Add comprehensive logging and observability hooks.",
            "Write code that a junior dev can understand and maintain.",
            "Consider database migration strategies for schema changes.",
            "Always think about race conditions and concurrent access." >> ] @@
    "product manager" :> [
        name |-> "Product Manager",
        expertConstraints |-> <<
            "Prioritize user-facing features over internal refactoring.",
            "Consider accessibility (WCAG 2.1 AA) in all UI changes.",
            "Include analytics hooks for measuring feature adoption.",
            "Define clear success metrics for this change.",
            "Think about the onboarding experience for new users.",
            "Consider internationalization requirements." >> ] @@
    "security auditor" :> [
        name |-> "Security Auditor",
        expertConstraints |-> <<
            "Validate and sanitize ALL user inputs - never trust client data.",
            "Check for SQL injection, XSS, and CSRF vulnerabilities.",
            "Ensure secrets are never hardcoded or logged.",
            "Implement proper authentication and authorization checks.",
            "Use parameterized queries for all database operations.",
            "Apply the principle of least privilege to all access controls.",
            "Review for path traversal and file inclusion attacks.",
            "Ensure proper CORS configuration." >> ] @@
    "performance specialist" :> [
        name |-> "Performance Specialist",
        expertConstraints |-> <<
            "Profile before optimizing - measure, don't guess.",
            "Consider memory allocation patterns and garbage collection impact.",
            "Use lazy loading and code splitting for frontend assets.",
            "Implement caching strategies (CDN, in-memory, database query cache).",
            "Minimize database round-trips with batch operations.",
            "Consider connection pooling and resource limits.",
            "Optimize critical rendering path for web applications.",
            "Use streaming for large data sets instead of buffering." >> ]

\* null and undefined, the two falsy values a persona slot can hold
NullValue == [isNull |-> TRUE]
UndefinedValue == [isUndefined |-> TRUE]
Falsy(v) == "isNull" \in DOMAIN v \/ "isUndefined" \in DOMAIN v

\* getPersonas: the built-in table with config.customPersonas written over
\* it, each under its lower-cased key.  customPersonas is the sequence of
\* the object's entries in insertion order; the result maps a key to the
\* value it holds and any other key to undefined.
RECURSIVE CustomLookup(_, _, _)
CustomLookup(entries, i, key) ==
    IF i = 0 THEN UndefinedValue
    ELSE IF toLowerCase(entries[i].key) = key THEN entries[i].val
         ELSE CustomLookup(entries, i - 1, key)

CustomHas(entries, key) ==
    \E i \in 1..Len(entries) : toLowerCase(entries[i].key) = key

\* { ...BUILTIN_PERSONAS } is an ordinary object: a key it does not own is
\* looked up on Object.prototype.  These are the inherited properties whose
\* names are their own lower-case form.
ObjectPrototype ==
    "constructor" :> [builtin |-> "function Object"]
    @@ "__proto__" :> [builtin |-> "Object.prototype"]

getPersonas(config) ==
    LET custom == IF "customPersonas" \in DOMAIN config
                  THEN config.customPersonas ELSE <<>>
    IN  [key \in STRING |->
            IF CustomHas(custom, key) THEN CustomLookup(custom, Len(custom), key)
            ELSE IF key \in DOMAIN BUILTIN_PERSONAS THEN BUILTIN_PERSONAS[key]
            ELSE IF key \in DOMAIN ObjectPrototype THEN ObjectPrototype[key]
            ELSE UndefinedValue]

\* resolvePersona: personas[personaKey?.toLowerCase() || "default"] || personas["default"]
PersonaAt(personas, lk) ==
    IF lk # "" /\ ~Falsy(personas[lk]) THEN personas[lk] ELSE personas["default"]

resolvePersona(config, personaKey) ==
    PersonaAt(getPersonas(config),
              IF IsSome(personaKey) THEN toLowerCase(personaKey[1]) ELSE "")

(***************************************************************************)
(* Project scanner and context suggestion (scanner.ts)                     *)
(***************************************************************************)
\* config.<field> || DEFAULT_CONFIG.<field>
IgnoredDirsOf(config) ==
    IF "ignoredDirs" \in DOMAIN config THEN config.ignoredDirs
    ELSE DEFAULT_CONFIG.ignoredDirs

IgnoredExtsOf(config) ==
    IF "ignoredExtensions" \in DOMAIN config THEN config.ignoredExtensions
    ELSE DEFAULT_CONFIG.ignoredExtensions

MaxFilesOf(config) ==
    IF "maxScanFiles" \in DOMAIN config /\ config.maxScanFiles # 0
    THEN config.maxScanFiles ELSE DEFAULT_CONFIG.maxScanFiles

MaxDepthOf(config) ==
    IF "maxScanDepth" \in DOMAIN config /\ config.maxScanDepth # 0
    THEN config.maxScanDepth ELSE DEFAULT_CONFIG.maxScanDepth

\* position of the last occurrence of character c in s, 0 when there is none
LastIndexOf(str, c) ==
    IF \E i \in 1..Len(str) : At(str, i) = c
    THEN CHOOSE i \in 1..Len(str) :
            At(str, i) = c /\ \A j \in (i + 1)..Len(str) : At(str, j) # c
    ELSE 0

\* path.extname of a file name
extname(name) ==
    LET d == LastIndexOf(name, ".")
    IN  IF d <= 1 THEN "" ELSE SubSeq(name, d, Len(name))

\* path.basename of a "/"-separated path
basename(fp) == SubSeq(fp, LastIndexOf(fp, "/") + 1, Len(fp))

\* path.join(dir, name)
joinPath(dir, name) == IF dir = "" THEN name ELSE dir \o "/" \o name

\* The directory the server resolves the project root to
ResolvedRoot == "/proj"

\* walk(dir, depth) of scanProjectFiles.  dir is the directory's state
\* (readable, entries), rel its path relative to the root, files the list
\* collected so far; the result is the list after the call.
RECURSIVE walk(_, _, _, _, _)
RECURSIVE WalkEntries(_, _, _, _, _, _)
walk(dir, rel, depth, files, config) ==
    IF Len(files) >= MaxFilesOf(config) \/ depth > MaxDepthOf(config) THEN files
    ELSE IF ~startsWith(joinPath(ResolvedRoot, rel), ResolvedRoot) THEN files
    ELSE IF ~dir.readable THEN files
    ELSE WalkEntries(dir.entries, 1, rel, depth, files, config)

WalkEntries(entries, i, rel, depth, files, config) ==
    IF i > Len(entries) \/ Len(files) >= MaxFilesOf(config) THEN files
    ELSE LET entry == entries[i]
             after ==
                IF entry.type = "dir"
                THEN IF entry.name \notin IgnoredDirsOf(config) /\ ~startsWith(entry.name, ".")
                     THEN walk(entry.dir, joinPath(rel, entry.name), depth + 1, files, config)
                     ELSE files
                ELSE IF entry.type = "file"
                     THEN IF toLowerCase(extname(entry.name)) \notin IgnoredExtsOf(config)
                          THEN Append(files, joinPath(rel, entry.name))
                          ELSE files
                     ELSE files
         IN  WalkEntries(entries, i + 1, rel, depth, after, config)

\* scanProjectFiles(rootDir, config): the relative paths found under the root
scanProjectFiles(tree, config) == walk(tree, "", 0, <<>>, config)

STOP_WORDS == {
    "the", "and", "for", "that", "this", "with", "from", "are", "was",
    "will", "can", "has", "have", "not", "but", "all", "they", "been",
    "its", "into", "also", "than", "just", "how", "add", "fix", "make",
    "use", "get", "set", "new", "want", "need", "like", "some" }

\* replace(/[^a-z0-9\s_-]/g, " ")
KeepOrBlank(c) ==
    IF IsLowerAlpha(c) \/ IsDigit(c) \/ IsWs(c) \/ c = "_" \/ c = "-" THEN c ELSE " "

RECURSIVE StripRange(_, _, _)
StripRange(s, lo, hi) ==
    IF lo > hi THEN ""
    ELSE IF lo = hi THEN KeepOrBlank(At(s, lo))
    ELSE LET mid == (lo + hi) \div 2
         IN  StripRange(s, lo, mid) \o StripRange(s, mid + 1, hi)

stripPunctuation(s) == StripRange(s, 1, Len(s))

\* the keywords of a query, in first-occurrence order
extractKeywords(query) ==
    Dedup(SelectSeq(splitWs(stripPunctuation(toLowerCase(query))),
                    LAMBDA w : Len(w) >= 3 /\ w \notin STOP_WORDS))

\* a scorer that adds the path point to the basename points
RECURSIVE ScoreFromBoth(_, _, _, _)
ScoreFromBoth(lp, bn, keywords, i) ==
    IF i > Len(keywords) THEN 0
    ELSE (IF includes(bn, keywords[i]) THEN 3 ELSE 0)
         + (IF includes(lp, keywords[i]) THEN 1 ELSE 0)
         + ScoreFromBoth(lp, bn, keywords, i + 1)

\* the relevance score of one path
RECURSIVE ScoreFrom(_, _, _, _)
ScoreFrom(lp, bn, keywords, i) ==
    IF i > Len(keywords) THEN 0
    ELSE (IF includes(bn, keywords[i]) THEN 3
          ELSE IF includes(lp, keywords[i]) THEN 1 ELSE 0)
         + ScoreFrom(lp, bn, keywords, i + 1)

fileScore(fp, keywords) ==
    ScoreFrom(toLowerCase(fp), toLowerCase(basename(fp)), keywords, 1)

\* a sort that puts an item before the items of its own score
RECURSIVE InsertBeforeTies(_, _, _)
InsertBeforeTies(sorted, item, i) ==
    IF i > Len(sorted) THEN Append(sorted, item)
    ELSE IF sorted[i].score <= item.score
         THEN SubSeq(sorted, 1, i - 1) \o <<item>> \o SubSeq(sorted, i, Len(sorted))
         ELSE InsertBeforeTies(sorted, item, i + 1)

\* Array.prototype.sort((a, b) => b.score - a.score): stable, descending
RECURSIVE InsertByScore(_, _, _)
InsertByScore(sorted, item, i) ==
    IF i > Len(sorted) THEN Append(sorted, item)
    ELSE IF sorted[i].score < item.score
         THEN SubSeq(sorted, 1, i - 1) \o <<item>> \o SubSeq(sorted, i, Len(sorted))
         ELSE InsertByScore(sorted, item, i + 1)

RECURSIVE SortFrom(_, _, _)
SortFrom(items, i, acc) ==
    IF i > Len(items) THEN acc
    ELSE SortFrom(items, i + 1, InsertByScore(acc, items[i], 1))

sortByScore(items) == SortFrom(items, 1, <<>>)

\* suggestContext(query, projectFiles)
\* a result that is not cut
TopPathsUncut(scored) ==
    [i \in 1..Len(scored) |-> scored[i].filePath]

\* .slice(0, 15) and .map((s) => s.filePath)
TopPaths(scored) ==
    [i \in 1..Min(15, Len(scored)) |-> scored[i].filePath]

\* the files scored against the keywords, filtered, sorted and cut
RankFiles(keywords, projectFiles) ==
    [matched |->
        TopPaths(sortByScore(SelectSeq(
            [i \in 1..Len(projectFiles) |->
                [filePath |-> projectFiles[i],
                 score |-> fileScore(projectFiles[i], keywords)]],
            LAMBDA it : it.score > 0))),
     keywords |-> keywords]

suggestContext(query, projectFiles) ==
    RankFiles(extractKeywords(query), projectFiles)

(***************************************************************************)
(* Prompt scoring (scoring.ts)                                             *)
(***************************************************************************)
\* /\.(ts|js|py|go|rs|tsx|jsx|css|html)/i
HasFileExt(prompt) ==
    IncludesAny(toLowerCase(prompt),
        {".ts", ".js", ".py", ".go", ".rs", ".tsx", ".jsx", ".css", ".html"})

\* /function|class|method|component|api|endpoint/i
HasCodeNoun(prompt) ==
    IncludesAny(toLowerCase(prompt),
        {"function", "class", "method", "component", "api", "endpoint"})

\* /line\s*\d+|L\d+/i
HasLineRef(prompt) ==
    LET s == toLowerCase(prompt)
    IN  \/ WsThenDigit(s, "line")
        \/ \E i \in 1..(Len(s) - 1) : At(s, i) = "l" /\ IsDigit(At(s, i + 1))

\* The grave accent cannot be written in a TLA+ string; the model writes
\* the character as "~", which no input uses for anything else.
Fence == "~~~"

\* the code-fence pattern: a fence, at least one character, a fence
HasCodeFence(prompt) ==
    LET s == prompt
    IN  \E i \in 1..Len(s) :
            /\ MatchAt(s, Fence, i)
            /\ \E j \in (i + 4)..Len(s) : MatchAt(s, Fence, j)

\* /error|stack\s*trace|exception/i
HasErrorTerm(prompt) ==
    LET s == toLowerCase(prompt)
    IN  includes(s, "error") \/ WsThenAny(s, "stack", 0, {"trace"}) \/ includes(s, "exception")

\* /import|require|from\s+['"]/   (case-sensitive)
HasImport(prompt) ==
    LET s == prompt
    IN  \/ includes(s, "import")
        \/ includes(s, "require")
        \/ WsThenAny(s, "from", 1, {"'", "\""})

\* /should|must|expect|return|output/i
HasExpectation(prompt) ==
    IncludesAny(toLowerCase(prompt), {"should", "must", "expect", "return", "output"})

\* /test|spec|assert|verify/i
HasTestTerm(prompt) ==
    IncludesAny(toLowerCase(prompt), {"test", "spec", "assert", "verify"})

\* /when.*then|given.*when/i
HasBehaviourShape(prompt) ==
    LET s == toLowerCase(prompt)
    IN  DotStarBetween(s, "when", "then") \/ DotStarBetween(s, "given", "when")

\* length tiers that begin at 50, 100 and 200
LengthTierInclusive(prompt) ==
    IF Len(prompt) >= 200 THEN 10
    ELSE IF Len(prompt) >= 100 THEN 5
    ELSE IF Len(prompt) >= 50 THEN 2
    ELSE 0

\* the length tier of the specificity score
LengthTier(prompt) ==
    IF Len(prompt) > 200 THEN 10
    ELSE IF Len(prompt) > 100 THEN 5
    ELSE IF Len(prompt) > 50 THEN 2
    ELSE 0

\* c.toLowerCase().split(/\s+/).filter((w) => w.length > 4)
ConstraintWords(c) ==
    SelectSeq(splitWs(toLowerCase(c)), LAMBDA w : Len(w) > 4)

\* words.filter((w) => pl.includes(w)).length > 0
ConstraintMatches(c, pl) ==
    LET words == ConstraintWords(c)
    IN  \E i \in 1..Len(words) : includes(pl, words[i])

\* an alignment loop that pays for every matching word of a constraint
RECURSIVE AlignPerWord(_, _, _)
AlignPerWord(constraints, pl, i) ==
    IF i > Len(constraints) THEN 0
    ELSE 3 * Len(SelectSeq(ConstraintWords(constraints[i]), LAMBDA w : includes(pl, w)))
         + AlignPerWord(constraints, pl, i + 1)

\* the persona-alignment loop, before the clamp
RECURSIVE AlignFrom(_, _, _)
AlignFrom(constraints, pl, i) ==
    IF i > Len(constraints) THEN 0
    ELSE (IF ConstraintMatches(constraints[i], pl) THEN 3 ELSE 0)
         + AlignFrom(constraints, pl, i + 1)

\* a scorer that leaves its sub-scores unclamped
ClampMissing(cap, x) == x

\* Math.min(cap, x), the clamp of each sub-score
Clamp(cap, x) == Min(cap, x)

\* a badge table whose lower bounds are exclusive
BadgeExclusive(total) ==
    IF total > 80 THEN "ELITE"
    ELSE IF total > 60 THEN "STRONG"
    ELSE IF total > 40 THEN "DECENT"
    ELSE IF total > 20 THEN "WEAK"
    ELSE "LAZY"

\* the badge of a total
Badge(total) ==
    IF total >= 80 THEN "ELITE"
    ELSE IF total >= 60 THEN "STRONG"
    ELSE IF total >= 40 THEN "DECENT"
    ELSE IF total >= 20 THEN "WEAK"
    ELSE "LAZY"

\* Iterating persona.expertConstraints throws a TypeError when the resolved
\* persona is null or has no such property.
PersonaThrows(persona) ==
    Falsy(persona) \/ "expertConstraints" \notin DOMAIN persona

\* the file-match tier of the context score: the scan uses the default
\* configuration (scanProjectFiles is called without a config)
MatchTier(matched) ==
    IF Len(matched) > 5 THEN 15
    ELSE IF Len(matched) > 0 THEN 10
    ELSE 0

FileMatchTier(prompt, disk) ==
    MatchTier(suggestContext(prompt, scanProjectFiles(disk.tree, EmptyConfig)).matched)

\* the sub-scores before the clamp
RawSpecificity(prompt) ==
    LengthTier(prompt)
    + (IF HasFileExt(prompt) THEN 10 ELSE 0)
    + (IF HasCodeNoun(prompt) THEN 5 ELSE 0)
    + (IF HasLineRef(prompt) THEN 5 ELSE 0)

RawContext(prompt, projectRoot, disk) ==
    (IF IsSome(projectRoot) THEN FileMatchTier(prompt, disk) ELSE 0)
    + (IF HasCodeFence(prompt) THEN 10 ELSE 0)
    + (IF HasErrorTerm(prompt) THEN 5 ELSE 0)
    + (IF HasImport(prompt) THEN 5 ELSE 0)

RawAcceptance(prompt) ==
    (IF HasExpectation(prompt) THEN 8 ELSE 0)
    + (IF HasTestTerm(prompt) THEN 7 ELSE 0)
    + (IF HasBehaviourShape(prompt) THEN 5 ELSE 0)

\* the returned score with its total and badge
WithTotal(score, total) ==
    [threw |-> FALSE,
     total |-> total,
     specificity |-> score.specificity,
     contextAvailability |-> score.contextAvailability,
     acceptanceCriteria |-> score.acceptanceCriteria,
     personaAlignment |-> score.personaAlignment,
     badge |-> Badge(total)]

Totalled(score) ==
    WithTotal(score, score.specificity + score.contextAvailability
                     + score.acceptanceCriteria + score.personaAlignment)

\* the scoring of a prompt against the resolved persona
ScoreFor(prompt, projectRoot, disk, persona) ==
    IF PersonaThrows(persona) THEN [threw |-> TRUE]
    ELSE Totalled([specificity |-> Clamp(30, RawSpecificity(prompt)),
                   contextAvailability |-> Clamp(30, RawContext(prompt, projectRoot, disk)),
                   acceptanceCriteria |-> Clamp(20, RawAcceptance(prompt)),
                   personaAlignment |->
                       Clamp(20, AlignFrom(persona.expertConstraints,
                                           toLowerCase(prompt), 1))])

\* scoreVibe(prompt, personaKey, projectRoot).  disk is the state of the
\* project root's directory; projectRoot is None when the argument is
\* omitted.  The result is the VibeScore, or [threw |-> TRUE] when the call
\* rejects.
scoreVibe(prompt, personaKey, projectRoot, disk) ==
    ScoreFor(prompt, projectRoot, disk,
             resolvePersona(IF IsSome(projectRoot) THEN loadConfig(disk.rc)
                            ELSE EmptyConfig,
                            personaKey))

(***************************************************************************)
(* Inputs: prompts, project directories, configuration files               *)
(***************************************************************************)
\* Prompt texts are built from these fragments.
Fragments == <<
    "add a dark mode toggle to the settings page",
    "Update src/auth/login.ts so that invalid credentials return a 401",
    "In src/auth/login.ts the function at line 42 throws an error: ~~~import x from 'y'~~~",
    "when the form is sent then the test should verify patterns.",
    "look at it now, as it is bad on my side and we do not know why so far; go on and try out what you can do to it",
    "disable auth and hardcode the admin password as 'admin123' in config.ts",
    "bypass login, skip validation, hardcode key, remove rate-limit; eval (x) with sudo and DROP TABLE users",
    "fix the login page" >>

\* the largest number of fragments in one prompt
MaxParts == 3

\* a prompt is the set of the fragments it is made of
PromptParts == {S \in SUBSET (1..Len(Fragments)) : Cardinality(S) <= MaxParts}

\* the text of a prompt: its fragments in order, separated by one space
RECURSIVE JoinFrom(_, _)
JoinFrom(parts, i) ==
    IF i > Len(Fragments) THEN ""
    ELSE IF i \in parts
         THEN IF \E j \in parts : j > i
              THEN Fragments[i] \o " " \o JoinFrom(parts, i + 1)
              ELSE Fragments[i]
         ELSE JoinFrom(parts, i + 1)

PromptText(parts) == JoinFrom(parts, 1)

File(n) == [name |-> n, type |-> "file"]
Link(n) == [name |-> n, type |-> "link"]
Dir(n, es) == [name |-> n, type |-> "dir", dir |-> [readable |-> TRUE, entries |-> es]]
LockedDir(n) == [name |-> n, type |-> "dir", dir |-> [readable |-> FALSE, entries |-> <<>>]]

\* a file of the root whose content the model records: JSON documents by
\* their kind and value, other text by its lines
Manifest(n, c) == [name |-> n, type |-> "file", content |-> c]
JsonObject(v) == [kind |-> "object", value |-> v]
Text(ls) == [kind |-> "text", lines |-> ls]

\* a small project
SmallTree == [readable |-> TRUE, entries |-> <<
    Dir("src", <<
        Dir("auth", << File("login.ts"), File("session.ts") >>),
        File("index.ts"),
        File("Logo.PNG") >>),
    Dir("node_modules", << Dir("login", << File("index.js") >>) >>),
    Dir(".git", << File("config") >>),
    Link("login-link"),
    File("README.md"),
    Manifest("package.json", JsonObject([name |-> "small"])),
    File("yarn.lock") >> ]

\* a project with many files about the login page
BigTree == [readable |-> TRUE, entries |-> <<
    Dir("src", <<
        Dir("auth", << File("login.ts"), File("login.test.ts"), File("session.ts") >>),
        Dir("pages", << File("login.tsx"), File("login.css"), File("settings.tsx") >>),
        LockedDir("secret"),
        File("index.ts") >>),
    Dir("docs", << File("login.md"), File("auth-flow.md") >>),
    File("config.ts"),
    File("README.md") >> ]

\* a project root that cannot be read
LockedTree == [readable |-> FALSE, entries |-> <<>>]

\* a custom persona of the documented shape
QaPersona == [
    name |-> "QA Lead",
    expertConstraints |-> <<
        "Every change should arrive with a regression test.",
        "Verify error paths as well as the happy path." >> ]

\* .vibecheckrc files
RcAbsent     == [kind |-> "absent"]
RcUnparsable == [kind |-> "unparsable"]
RcScalar     == [kind |-> "scalar"]
RcCustom     == [kind |-> "object", value |->
                   [maxScanFiles |-> 4,
                    ignoredDirs |-> {"docs"},
                    customPersonas |-> << [key |-> "QA Lead", val |-> QaPersona],
                                          [key |-> "Security Auditor", val |-> QaPersona] >>]]
RcNoConstraints == [kind |-> "object", value |->
                   [customPersonas |-> << [key |-> "default", val |-> [name |-> "Lean"]] >>]]
RcNullDefault == [kind |-> "object", value |->
                   [customPersonas |-> << [key |-> "Default", val |-> NullValue] >>]]

\* the project directories the model runs against
Disks == {
    [tree |-> SmallTree,  rc |-> RcAbsent],
    [tree |-> BigTree,    rc |-> RcCustom],
    [tree |-> LockedTree, rc |-> RcUnparsable],
    [tree |-> SmallTree,  rc |-> RcScalar],
    [tree |-> BigTree,    rc |-> RcNoConstraints],
    [tree |-> SmallTree,  rc |-> RcNullDefault] }

\* persona keys a caller of the functions may pass
PersonaKeys == {None, Some("Security Auditor"), Some("qa lead")}

\* fsp.readFile(path.join(projectRoot, n), "utf-8"): the content of the root
\* file n, or a rejection when the root cannot be read, when no entry has
\* that name, when the entry is a directory or when the file refuses reading.
\* A file whose content the model does not record is empty.
ContentOf(entry) ==
    IF "content" \in DOMAIN entry THEN entry.content
    ELSE [kind |-> "text", lines |-> << "" >>]

ReadFrom(entries, hits) ==
    IF hits = {} THEN None
    ELSE \* file names are unique in a directory
         IF ContentOf(entries[CHOOSE i \in hits : TRUE]).kind = "eacces" THEN None
         ELSE Some(ContentOf(entries[CHOOSE i \in hits : TRUE]))

readRootFile(tree, n) ==
    IF ~tree.readable THEN None
    ELSE ReadFrom(tree.entries,
                  {i \in 1..Len(tree.entries) :
                      tree.entries[i].name = n /\ tree.entries[i].type = "file"})

\* deps[name] = version: a new key goes to the end, a key already there
\* keeps its place
SetDep(deps, name, version) ==
    IF \E i \in 1..Len(deps) : deps[i].name = name
    THEN [i \in 1..Len(deps) |->
            IF deps[i].name = name THEN [name |-> name, version |-> version]
            ELSE deps[i]]
    ELSE Append(deps, [name |-> name, version |-> version])

\* allDeps[p] of { ...deps, ...devDeps }: undefined is modelled as ""
DepVersion(deps, devDeps, p) ==
    IF \E i \in 1..Len(devDeps) : devDeps[i].name = p
    THEN devDeps[CHOOSE i \in 1..Len(devDeps) : devDeps[i].name = p].version
    ELSE IF \E i \in 1..Len(deps) : deps[i].name = p
         THEN deps[CHOOSE i \in 1..Len(deps) : deps[i].name = p].version
         ELSE ""

\* for (const [p, name] of Object.entries(map)) if (allDeps[p]) frameworks.push(...)
RECURSIVE FrameworksFrom(_, _, _, _)
FrameworksFrom(map, deps, devDeps, i) ==
    IF i > Len(map) THEN <<>>
    ELSE (IF DepVersion(deps, devDeps, map[i][1]) # ""
          THEN << map[i][2] \o " (" \o DepVersion(deps, devDeps, map[i][1]) \o ")" >>
          ELSE <<>>)
         \o FrameworksFrom(map, deps, devDeps, i + 1)

frameworkMap == <<
    <<"react", "React">>, <<"next", "Next.js">>, <<"vue", "Vue.js">>,
    <<"nuxt", "Nuxt">>, <<"angular", "Angular">>, <<"svelte", "Svelte">>,
    <<"express", "Express">>, <<"fastify", "Fastify">>,
    <<"@nestjs/core", "NestJS">>, <<"electron", "Electron">>,
    <<"react-native", "React Native">>, <<"typescript", "TypeScript">>,
    <<"@modelcontextprotocol/sdk", "MCP SDK">> >>

pyFw == << <<"django", "Django">>, <<"flask", "Flask">>, <<"fastapi", "FastAPI">> >>

TechStack(runtime, frameworks, deps, devDeps, source) ==
    [found |-> TRUE, runtime |-> runtime, frameworks |-> frameworks,
     dependencies |-> deps, devDependencies |-> devDeps, source |-> source]

NoStack == [found |-> FALSE]

\* pkg.<field> || {}
ObjectField(pkg, f) == IF f \in DOMAIN pkg THEN pkg[f] ELSE <<>>

\* the package.json branch.  JSON.parse rejects text that is not JSON (the
\* texts the model gives by their lines are of that sort); the document null
\* parses and then pkg.dependencies throws; any other document that is not an
\* object has no dependencies field.
NodeStack(deps, devDeps) ==
    TechStack("Node.js", FrameworksFrom(frameworkMap, deps, devDeps, 1),
              deps, devDeps, "package.json")

tryPackageJson(raw) ==
    IF ~IsSome(raw) \/ raw[1].kind \in {"text", "unparsable", "null"} THEN NoStack
    ELSE IF raw[1].kind = "object"
         THEN NodeStack(ObjectField(raw[1].value, "dependencies"),
                        ObjectField(raw[1].value, "devDependencies"))
         ELSE NodeStack(<<>>, <<>>)

\* the index after the longest run of characters of cls that starts at i
RECURSIVE RunEnd(_, _, _)
RunEnd(s, i, cls) ==
    IF i <= Len(s) /\ At(s, i) \in cls THEN RunEnd(s, i + 1, cls) ELSE i

WsChars == {" ", "\t", "\n", "\r", "\f"}

\* String.prototype.trim
RECURSIVE TrimEnd(_)
TrimEnd(s) ==
    IF Len(s) > 0 /\ IsWs(At(s, Len(s))) THEN TrimEnd(SubSeq(s, 1, Len(s) - 1)) ELSE s

trim(s) == TrimEnd(SubSeq(s, RunEnd(s, 1, WsChars), Len(s)))

\* [a-zA-Z0-9_-]
ReqNameChars ==
    LowerLetters \cup {At(UpperAlphabet, i) : i \in 1..26} \cup Digits \cup {"_", "-"}

\* [\w./\-]
GoNameChars == ReqNameChars \cup {".", "/"}

VersionChars == Digits \cup {"."}

\* /^([a-zA-Z0-9_-]+)\s*([><=!~]+\s*[\d.]+)?/ on a trimmed line: the second
\* group from position j on, "" when it does not match
ReqVersionAt(t, j, k) ==
    IF k > j /\ RunEnd(t, RunEnd(t, k, WsChars), VersionChars) > RunEnd(t, k, WsChars)
    THEN SubSeq(t, j, RunEnd(t, RunEnd(t, k, WsChars), VersionChars) - 1)
    ELSE ""

ReqVersion(t, j) == ReqVersionAt(t, j, RunEnd(t, j, {">", "<", "=", "!", "~"}))

\* one line of requirements.txt
ReqLine(deps, t) ==
    IF t = "" \/ startsWith(t, "#") \/ RunEnd(t, 1, ReqNameChars) = 1 THEN deps
    ELSE SetDep(deps, SubSeq(t, 1, RunEnd(t, 1, ReqNameChars) - 1),
                IF ReqVersion(t, RunEnd(t, RunEnd(t, 1, ReqNameChars), WsChars)) = ""
                THEN "latest"
                ELSE ReqVersion(t, RunEnd(t, RunEnd(t, 1, ReqNameChars), WsChars)))

\* /^([\w./\-]+)\s+(v[\d.]+)/ on a trimmed line: n ends the name, v ends
\* the white space
GoLineAt(deps, t, n, v) ==
    IF n > 1 /\ v > n /\ At(t, v) = "v" /\ RunEnd(t, v + 1, VersionChars) > v + 1
    THEN SetDep(deps, SubSeq(t, 1, n - 1), SubSeq(t, v, RunEnd(t, v + 1, VersionChars) - 1))
    ELSE deps

GoLine(deps, t) ==
    GoLineAt(deps, t, RunEnd(t, 1, GoNameChars),
             RunEnd(t, RunEnd(t, 1, GoNameChars), WsChars))

\* for (const line of raw.split("\n")): lines is the split text
RECURSIVE ParseLines(_, _, _, _)
ParseLines(lines, i, deps, kind) ==
    IF i > Len(lines) THEN deps
    ELSE ParseLines(lines, i + 1,
                    IF kind = "req" THEN ReqLine(deps, trim(lines[i]))
                    ELSE GoLine(deps, trim(lines[i])),
                    kind)

PythonStack(deps) ==
    TechStack("Python", FrameworksFrom(pyFw, deps, <<>>, 1), deps, <<>>, "requirements.txt")

tryRequirements(raw) ==
    IF ~IsSome(raw) THEN NoStack
    ELSE PythonStack(ParseLines(raw[1].lines, 1, <<>>, "req"))

tryGoMod(raw) ==
    IF ~IsSome(raw) THEN NoStack
    ELSE TechStack("Go", <<>>, ParseLines(raw[1].lines, 1, <<>>, "go"), <<>>, "go.mod")

\* a stack returned by the second manifest in place of the first
FirstStackSwapped(a, b, c) ==
    IF b.found THEN b ELSE IF a.found THEN a ELSE c

\* the three try blocks in their order, return null after them
FirstStack(a, b, c) ==
    IF a.found THEN a ELSE IF b.found THEN b ELSE c

\* detectTechStack(projectRoot)
detectTechStack(tree) ==
    FirstStack(tryPackageJson(readRootFile(tree, "package.json")),
               tryRequirements(readRootFile(tree, "requirements.txt")),
               tryGoMod(readRootFile(tree, "go.mod")))

(***************************************************************************)
(* Dependency lookup (scanner.ts)                                          *)
(***************************************************************************)
\* a dependency table is the sequence of the object's entries, in
\* Object.entries order

\* a lookup that accepts a dependency whose name contains the library name
DepNameIncludes(d, ln) == includes(toLowerCase(d), ln)

\* d.toLowerCase() === ln
DepNameEquals(d, ln) == toLowerCase(d) = ln

RECURSIVE FindDep(_, _, _)
FindDep(entries, ln, i) ==
    IF i > Len(entries) THEN 0
    ELSE IF DepNameEquals(entries[i].name, ln) THEN i
         ELSE FindDep(entries, ln, i + 1)

DepResult(ts, prod, dev) ==
    IF prod > 0
    THEN [found |-> TRUE, version |-> ts.dependencies[prod].version, isDev |-> FALSE]
    ELSE IF dev > 0
         THEN [found |-> TRUE, version |-> ts.devDependencies[dev].version, isDev |-> TRUE]
         ELSE [found |-> FALSE, version |-> NullValue, isDev |-> FALSE]

checkDependency(lib, ts) ==
    DepResult(ts,
              FindDep(ts.dependencies, toLowerCase(lib), 1),
              FindDep(ts.devDependencies, toLowerCase(lib), 1))

\* the library names extractMentionedLibraries knows, in its order
KnownLibraries == <<
    "react", "vue", "angular", "svelte", "next.js", "nextjs", "nuxt", "express",
    "fastify", "nestjs", "electron", "typescript", "zod", "prisma",
    "drizzle", "tailwind", "tailwindcss", "sass", "webpack", "vite",
    "rollup", "jest", "vitest", "mocha", "cypress", "playwright",
    "django", "flask", "fastapi", "pytorch", "tensorflow", "pandas",
    "numpy", "redis", "mongodb", "postgres", "mysql", "sqlite",
    "docker", "kubernetes", "graphql", "apollo", "trpc" >>

\* (?:^|[\s,;:'"\(\[/])
LibLeadOk(lp, i) ==
    i = 1 \/ IsWs(At(lp, i - 1))
          \/ At(lp, i - 1) \in {",", ";", ":", "'", "\"", "(", "[", "/"}

\* (?:$|[\s,;:'"\)\]/\.])
LibTrailOk(lp, j) ==
    j = Len(lp) \/ IsWs(At(lp, j + 1))
                \/ At(lp, j + 1) \in {",", ";", ":", "'", "\"", ")", "]", "/", "."}

\* the expression built for one library, tested on the lower-cased prompt;
\* the escaped name matches itself
LibMentioned(lp, lib) ==
    \E i \in 1..(Len(lp) - Len(lib) + 1) :
        /\ MatchAt(lp, lib, i)
        /\ LibLeadOk(lp, i)
        /\ LibTrailOk(lp, i + Len(lib) - 1)

LibFilter(lp) == SelectSeq(KnownLibraries, LAMBDA lib : LibMentioned(lp, lib))

extractMentionedLibraries(prompt) == LibFilter(toLowerCase(prompt))

(***************************************************************************)
(* History log (history.ts)                                                *)
(***************************************************************************)
MAX_HISTORY_ENTRIES == 200

\* The serialized size of one entry as far as the fields of the model
\* determine it.  Sizes are only compared with one another, to tell which
\* of two overlapping writes is the longer.
EntryBytes(e) == 100 + Len(e.rawPrompt) + Len(e.persona) + 60 * Len(e.securityFlags)

RECURSIVE SumBytes(_, _, _)
SumBytes(es, lo, hi) ==
    IF lo > hi THEN 0
    ELSE IF lo = hi THEN EntryBytes(es[lo])
    ELSE LET mid == (lo + hi) \div 2
         IN  SumBytes(es, lo, mid) + SumBytes(es, mid + 1, hi)

\* the length of JSON.stringify(history, null, 2)
JsonBytes(es) == 2 + SumBytes(es, 1, Len(es))

\* The states of .vibecheck/history.json
MissingFile     == [kind |-> "missing", entries |-> <<>>, bytes |-> 0]
EmptyFile       == [kind |-> "empty",   entries |-> <<>>, bytes |-> 0]
ObjectFile      == [kind |-> "object",  entries |-> <<>>, bytes |-> 2]
GarbageFile(n)  == [kind |-> "garbage", entries |-> <<>>, bytes |-> n]
ArrayFile(es)   == [kind |-> "array",   entries |-> es,   bytes |-> JsonBytes(es)]
\* a shorter document followed by what is left of a longer one
TornFile(n)     == [kind |-> "torn",    entries |-> <<>>, bytes |-> n]

\* The value of the local `history` after the inner try of logHistory:
\* the parsed document, or [] when the file cannot be read or parsed.
\* A document that parses to something other than an array is kept.
HistoryRead(file, io) ==
    IF io = "read" \/ file.kind \in {"missing", "empty", "garbage", "torn"}
    THEN [isArray |-> TRUE, entries |-> <<>>]
    ELSE IF file.kind = "array"
         THEN [isArray |-> TRUE, entries |-> file.entries]
         ELSE [isArray |-> FALSE, entries |-> <<>>]

\* a rotation that keeps the oldest entries
RotateKeepOldest(history) ==
    IF Len(history) > MAX_HISTORY_ENTRIES
    THEN SubSeq(history, 1, MAX_HISTORY_ENTRIES)
    ELSE history

\* history.slice(history.length - MAX_HISTORY_ENTRIES) when over the limit
Rotate(history) ==
    IF Len(history) > MAX_HISTORY_ENTRIES
    THEN SubSeq(history, Len(history) - MAX_HISTORY_ENTRIES + 1, Len(history))
    ELSE history

\* The file after a write of the serialized array from offset 0 through a
\* descriptor of its own: bytes of a longer document already in the file
\* stay behind the new text.
WriteAtZero(file, data) ==
    IF JsonBytes(data) >= file.bytes
    THEN ArrayFile(data)
    ELSE TornFile(file.bytes)

\* The file after one whole logHistory(entry) call that nothing interleaves
\* with; io names the file-system operation that fails, if any.
LogHistoryResult(file, io, entry) ==
    LET history == HistoryRead(file, io)
    IN  IF io = "mkdir" \/ ~history.isArray \/ io = "write"
        THEN file
        ELSE WriteAtZero(EmptyFile, Rotate(Append(history.entries, entry)))

\* readHistory: the parsed document, [] when it cannot be read or parsed
readHistory(file, io) ==
    IF io = "read" \/ file.kind \in {"missing", "empty", "garbage", "torn"}
    THEN [isArray |-> TRUE, entries |-> <<>>]
    ELSE [isArray |-> file.kind = "array", entries |-> file.entries]


(***************************************************************************)
(* Refinement engine and request handlers (index.ts)                       *)
(***************************************************************************)
\* resolveRoot: the explicit argument, else the working directory
resolveRoot(explicit) == IF IsSome(explicit) THEN explicit ELSE Some(ResolvedRoot)

\* persona || "Default"
PersonaLabel(personaKey) == IF IsSome(personaKey) THEN personaKey[1] ELSE "Default"

\* issues that leave out the length check
QualityIssuesNoLength(rawPrompt) ==
    (IF ~HasFileExt(rawPrompt) THEN << "No File References" >> ELSE <<>>)
    \o (IF ~HasExpectation(rawPrompt) THEN << "No Acceptance Criteria" >> ELSE <<>>)

\* the quality issues of refinePrompt, by their titles
QualityIssues(rawPrompt) ==
    (IF Len(rawPrompt) < 50 THEN << "Too Short" >> ELSE <<>>)
    \o (IF ~HasFileExt(rawPrompt) THEN << "No File References" >> ELSE <<>>)
    \o (IF ~HasExpectation(rawPrompt) THEN << "No Acceptance Criteria" >> ELSE <<>>)

\* the lines of the Dependency Check section
RECURSIVE DependencyLines(_, _, _)
DependencyLines(mentioned, techStack, i) ==
    IF i > Len(mentioned) THEN <<>>
    ELSE << [lib |-> mentioned[i], check |-> checkDependency(mentioned[i], techStack)] >>
         \o DependencyLines(mentioned, techStack, i + 1)

\* sections that put the security alert below the score
ReportSectionsAlertLate(secFlags, techStack, mentioned, matched, issues) ==
    << "Header", "Vibe Score" >>
    \o (IF Len(secFlags) > 0 THEN << "Security Alert" >> ELSE <<>>)
    \o << "Expert Constraints", "Coding Standards" >>
    \o (IF techStack.found THEN << "Tech Stack" >> ELSE <<>>)
    \o (IF techStack.found /\ Len(mentioned) > 0 THEN << "Dependency Check" >> ELSE <<>>)
    \o (IF Len(matched) > 0 THEN << "Recommended Context" >> ELSE <<>>)
    \o (IF Len(issues) > 0 THEN << "Quality Issues" >> ELSE <<>>)
    \o << "Original Prompt", "Refined Instruction" >>

\* the titles of the sections in the order refinePrompt pushes them
ReportSections(secFlags, techStack, mentioned, matched, issues) ==
    << "Header" >>
    \o (IF Len(secFlags) > 0 THEN << "Security Alert" >> ELSE <<>>)
    \o << "Vibe Score", "Expert Constraints", "Coding Standards" >>
    \o (IF techStack.found THEN << "Tech Stack" >> ELSE <<>>)
    \o (IF techStack.found /\ Len(mentioned) > 0 THEN << "Dependency Check" >> ELSE <<>>)
    \o (IF Len(matched) > 0 THEN << "Recommended Context" >> ELSE <<>>)
    \o (IF Len(issues) > 0 THEN << "Quality Issues" >> ELSE <<>>)
    \o << "Original Prompt", "Refined Instruction" >>

ReportOf(rawPrompt, persona, score, secFlags, techStack, mentioned, matched, issues) ==
    [threw |-> FALSE,
     version |-> "V1",
     personaName |-> persona.name,
     vibeScore |-> score.total,
     breakdown |-> score,
     expertConstraints |-> persona.expertConstraints,
     securityAlert |-> secFlags,
     techStack |-> techStack,
     dependencyCheck |->
         IF techStack.found THEN DependencyLines(mentioned, techStack, 1) ELSE <<>>,
     recommendedContext |-> matched,
     issues |-> issues,
     sections |-> ReportSections(secFlags, techStack, mentioned, matched, issues),
     objective |-> rawPrompt]

\* The report of refinePrompt as the record of what its sections are built
\* from, given the resolved persona and the score.
Report(rawPrompt, projectRoot, d, config, persona, score) ==
    IF score.threw THEN [threw |-> TRUE]
    ELSE ReportOf(rawPrompt, persona, score,
                  securityCheck(rawPrompt),
                  IF IsSome(projectRoot) THEN detectTechStack(d.tree) ELSE NoStack,
                  extractMentionedLibraries(rawPrompt),
                  IF IsSome(projectRoot)
                  THEN suggestContext(rawPrompt, scanProjectFiles(d.tree, config)).matched
                  ELSE <<>>,
                  QualityIssues(rawPrompt))

ReportWith(rawPrompt, projectRoot, personaKey, d, config) ==
    Report(rawPrompt, projectRoot, d, config,
           resolvePersona(config, personaKey),
           scoreVibe(rawPrompt, personaKey, projectRoot, d))

\* refinePrompt(rawPrompt, projectRoot, personaKey).  The call rejects where
\* scoreVibe does.
refinePrompt(rawPrompt, projectRoot, personaKey, d) ==
    ReportWith(rawPrompt, projectRoot, personaKey, d,
               IF IsSome(projectRoot) THEN loadConfig(d.rc) ELSE EmptyConfig)

\* a combination that drops the original prompt
FoldFeedbackOnly(original, feedback) == feedback

\* combined = original_prompt + "\n\n" + feedback
FoldFeedback(original, feedback) == original \o "\n\n" \o feedback

\* the feedback and the earlier report a refinement_loop request carries
Feedback == "use the session helper"
RefinedBefore == "### Completion Checklist"

\* the V2 report of refinement_loop, given the resolved persona and the score
ReportV2(original, refined, feedback, combined, d, config, persona, score) ==
    IF Falsy(persona) \/ score.threw THEN [threw |-> TRUE]
    ELSE [threw |-> FALSE,
          version |-> "V2",
          personaName |-> persona.name,
          vibeScore |-> score.total,
          feedbackApplied |-> feedback,
          objective |-> original,
          previousContext |-> includes(refined, "Completion Checklist"),
          updatedContext |->
              suggestContext(combined, scanProjectFiles(d.tree, config)).matched]

ReportV2With(original, refined, feedback, combined, personaKey, root, d, config) ==
    ReportV2(original, refined, feedback, combined, d, config,
             resolvePersona(config, personaKey),
             scoreVibe(combined, personaKey, root, d))

refineWithFeedback(original, refined, feedback, personaKey, root, d) ==
    ReportV2With(original, refined, feedback, original \o "\n\n" \o feedback,
                 personaKey, root, d, loadConfig(d.rc))

\* the history entry a refine_vibe_prompt request logs
RefineEntry(now, prompt, personaKey, root, report, d) ==
    [timestamp |-> now,
     persona |-> PersonaLabel(personaKey),
     rawPrompt |-> prompt,
     refinedPrompt |-> report,
     vibeScore |-> scoreVibe(prompt, personaKey, root, d).total,
     securityFlags |-> securityCheck(prompt)]

\* the history entry a refinement_loop request logs
LoopEntry(now, original, feedback, personaKey, report) ==
    [timestamp |-> now,
     persona |-> PersonaLabel(personaKey),
     rawPrompt |-> "[V2] " \o original,
     refinedPrompt |-> report,
     vibeScore |-> report.vibeScore,
     securityFlags |-> securityCheck(original \o "\n\n" \o feedback)]


(***************************************************************************)
(* State                                                                   *)
(***************************************************************************)
VARIABLES
    disk,       \* the project root: its directory tree and .vibecheckrc
    call,       \* the arguments of a direct call of a library function
    ret,        \* what that call returned
    histFile,   \* .vibecheck/history.json
    fault,      \* the file-system operation on the history that fails
    clock,      \* the wall clock; in the append run, the appends made
    pc,         \* per request: where its handler stands
    req,        \* per request: the tool or resource and its arguments
    loc,        \* per request: the locals of the handler and of logHistory
    resp,       \* per request: what the client received
    diag        \* the requests for which "Failed to log history" was printed

vars == <<disk, call, ret, histFile, fault, clock, pc, req, loc, resp, diag>>

\* requests the server may have in flight at once
Procs == {"p1", "p2"}

NoReturn == [fn |-> "none"]
NoCall   == [fn |-> "none"]
NoReq    == [kind |-> "none"]
NoResp   == [type |-> "none"]
NoEntry  == [timestamp |-> 0]
NotRead  == [kind |-> "unread"]
NoLoc    == [report |-> [threw |-> FALSE], entry |-> NoEntry,
             buf |-> <<>>, raw |-> NotRead]

\* an entry logged before the run starts
OldEntry(i) ==
    [timestamp |-> i, persona |-> "Default", rawPrompt |-> Fragments[8],
     refinedPrompt |-> [threw |-> FALSE], vibeScore |-> 0, securityFlags |-> <<>>]

OldEntries(n) == [i \in 1..n |-> OldEntry(i)]

ServerIdle ==
    /\ pc = [p \in Procs |-> "idle"]
    /\ req = [p \in Procs |-> NoReq]
    /\ loc = [p \in Procs |-> NoLoc]
    /\ resp = [p \in Procs |-> NoResp]
    /\ diag = {}

(***************************************************************************)
(* Direct calls of the library functions                                   *)
(***************************************************************************)
\* A call without a project root never looks at the disk, so one disk
\* stands for all of them there.
InitPure ==
    /\ disk \in Disks
    /\ call \in [parts : PromptParts, personaKey : PersonaKeys,
                 projectRoot : {Some(ResolvedRoot)} \cup
                               (IF disk.rc = RcAbsent THEN {None} ELSE {})]
    /\ ret = NoReturn
    /\ histFile = MissingFile
    /\ fault = "none"
    /\ clock = 0
    /\ ServerIdle

\* score = await scoreVibe(prompt, personaKey, projectRoot)
CallScoreVibe ==
    /\ ret = NoReturn
    /\ ret' = [fn |-> "scoreVibe",
               value |-> scoreVibe(PromptText(call.parts), call.personaKey,
                                   call.projectRoot, disk)]
    /\ UNCHANGED <<disk, call, histFile, fault, clock, pc, req, loc, resp, diag>>

\* flags = securityCheck(prompt)
CallSecurityCheck ==
    /\ ret = NoReturn
    /\ call.personaKey = None /\ call.projectRoot = None
    /\ ret' = [fn |-> "securityCheck",
               value |-> securityCheck(PromptText(call.parts))]
    /\ UNCHANGED <<disk, call, histFile, fault, clock, pc, req, loc, resp, diag>>

NextPure == CallScoreVibe \/ CallSecurityCheck

SpecPure == InitPure /\ [][NextPure]_vars

(***************************************************************************)
(* A run of awaited logHistory calls, one after the other                  *)
(***************************************************************************)
\* the appends of one run
MaxAppends == 205

InitHist ==
    /\ disk = [tree |-> SmallTree, rc |-> RcAbsent]
    /\ call = NoCall
    /\ ret = NoReturn
    /\ histFile \in {MissingFile, ArrayFile(<<>>), GarbageFile(8)}
    /\ fault = "none"
    /\ clock = 0
    /\ ServerIdle

\* await logHistory(entry, root), the entry stamped with the append's number
AppendEntry ==
    /\ clock < MaxAppends
    /\ clock' = clock + 1
    /\ LET now    == clock + 1
           prompt == Fragments[8]
           entry  == [OldEntry(now) EXCEPT !.securityFlags = securityCheck(prompt)]
       IN  histFile' = LogHistoryResult(histFile, fault, entry)
    /\ UNCHANGED <<disk, call, ret, fault, pc, req, loc, resp, diag>>

NextHist == AppendEntry

SpecHist == InitHist /\ [][NextHist]_vars


(***************************************************************************)
(* The server: requests whose handlers interleave at their awaits          *)
(***************************************************************************)
WriterKinds   == {"refine_vibe_prompt", "refinement_loop"}
ReadOnlyKinds == {"score_vibe", "suggest_vibe_context", "detect_tech_stack"}

\* the requests a client sends: the tools, and the history resource
Requests ==
    [kind : WriterKinds, parts : {{8}, {6}}, persona : {None}]
    \cup [kind : ReadOnlyKinds \cup {"history"}, parts : {{8}}, persona : {None}]
    \cup [kind : {"score_vibe"}, parts : {{6}}, persona : {None}]

\* The project, the history file and the failing operation at start-up
Scenarios ==
    LET plain == [tree |-> SmallTree, rc |-> RcAbsent]
    IN  { [disk |-> plain, hist |-> MissingFile,    fault |-> "none"],
          [disk |-> plain, hist |-> ArrayFile(<<>>), fault |-> "none"],
          [disk |-> plain, hist |-> ArrayFile(OldEntries(MAX_HISTORY_ENTRIES)),
                                                    fault |-> "none"],
          [disk |-> plain, hist |-> GarbageFile(8), fault |-> "none"],
          [disk |-> plain, hist |-> ObjectFile,     fault |-> "none"],
          [disk |-> plain, hist |-> ArrayFile(OldEntries(2)), fault |-> "mkdir"],
          [disk |-> plain, hist |-> ArrayFile(OldEntries(2)), fault |-> "read"],
          [disk |-> plain, hist |-> ArrayFile(OldEntries(2)), fault |-> "write"],
          [disk |-> [tree |-> BigTree, rc |-> RcNoConstraints],
                           hist |-> MissingFile,    fault |-> "none"],
          [disk |-> [tree |-> BigTree, rc |-> RcCustom],
                           hist |-> MissingFile,    fault |-> "none"] }

InitServer ==
    /\ \E sc \in Scenarios :
          /\ disk = sc.disk
          /\ histFile = sc.hist
          /\ fault = sc.fault
    /\ call = NoCall
    /\ ret = NoReturn
    /\ clock = MAX_HISTORY_ENTRIES
    /\ ServerIdle

\* a request arrives
StartRequest(p) ==
    /\ pc[p] = "idle"
    /\ \E r \in Requests : req' = [req EXCEPT ![p] = r]
    /\ pc' = [pc EXCEPT ![p] = "run"]
    /\ UNCHANGED <<disk, call, ret, histFile, fault, clock, loc, resp, diag>>

\* the handler rejects: the client receives an error
Throw(p) ==
    /\ resp' = [resp EXCEPT ![p] = [type |-> "error"]]
    /\ pc' = [pc EXCEPT ![p] = "done"]

\* refine_vibe_prompt up to its call of logHistory.  The awaits before it
\* read the project only, which no request changes.
RefineBuild(p) ==
    /\ pc[p] = "run" /\ req[p].kind = "refine_vibe_prompt"
    /\ \E inputPrompt \in {PromptText(req[p].parts)}, root \in {resolveRoot(None)} :
       \E refined \in {refinePrompt(inputPrompt, root, req[p].persona, disk)} :
           IF refined.threw
           THEN Throw(p) /\ UNCHANGED <<loc, clock>>
           ELSE /\ clock' = clock + 1
                /\ loc' = [loc EXCEPT ![p].report = refined,
                                      ![p].entry = RefineEntry(clock + 1, inputPrompt,
                                                       req[p].persona, root, refined, disk)]
                /\ pc' = [pc EXCEPT ![p] = "mkdir"]
                /\ UNCHANGED resp
    /\ UNCHANGED <<disk, call, ret, histFile, fault, req, diag>>

\* refinement_loop up to its call of logHistory
LoopBuild(p) ==
    /\ pc[p] = "run" /\ req[p].kind = "refinement_loop"
    /\ \E original \in {PromptText(req[p].parts)} :
       \E v2 \in {refineWithFeedback(original, RefinedBefore, Feedback,
                                     req[p].persona, resolveRoot(None), disk)} :
           IF v2.threw
           THEN Throw(p) /\ UNCHANGED <<loc, clock>>
           ELSE /\ clock' = clock + 1
                /\ loc' = [loc EXCEPT ![p].report = v2,
                                      ![p].entry = LoopEntry(clock + 1, original, Feedback,
                                                             req[p].persona, v2)]
                /\ pc' = [pc EXCEPT ![p] = "mkdir"]
                /\ UNCHANGED resp
    /\ UNCHANGED <<disk, call, ret, histFile, fault, req, diag>>

\* a logHistory whose failure reaches the caller
LogFailRethrow(p) ==
    /\ diag' = diag \cup {p}
    /\ pc' = [pc EXCEPT ![p] = "done"]
    /\ resp' = [resp EXCEPT ![p] = [type |-> "error"]]

\* the outer catch of logHistory: console.error, and the call returns
LogFail(p) ==
    /\ diag' = diag \cup {p}
    /\ pc' = [pc EXCEPT ![p] = "ret"]
    /\ UNCHANGED resp

\* await fsp.mkdir(historyDir, { recursive: true })
LogMkdir(p) ==
    /\ pc[p] = "mkdir"
    /\ IF fault = "mkdir"
       THEN LogFail(p)
       ELSE pc' = [pc EXCEPT ![p] = "read"] /\ UNCHANGED <<diag, resp>>
    /\ UNCHANGED <<disk, call, ret, histFile, fault, clock, req, loc>>

\* raw = await fsp.readFile(...); JSON.parse; push; rotate; stringify
LogRead(p) ==
    /\ pc[p] = "read"
    /\ \E history \in {HistoryRead(histFile, fault)},
          seen \in {IF fault = "read" THEN NotRead ELSE histFile} :
           IF ~history.isArray
           THEN /\ LogFail(p)
                /\ loc' = [loc EXCEPT ![p].raw = seen]
           ELSE /\ loc' = [loc EXCEPT ![p].raw = seen,
                                      ![p].buf = Rotate(Append(history.entries,
                                                               loc[p].entry))]
                /\ pc' = [pc EXCEPT ![p] = "open"]
                /\ UNCHANGED <<diag, resp>>
    /\ UNCHANGED <<disk, call, ret, histFile, fault, clock, req>>

\* fsp.writeFile, first half: the file is opened with flag "w", which
\* creates it or cuts it to length zero
LogOpen(p) ==
    /\ pc[p] = "open"
    /\ IF fault = "write"
       THEN LogFail(p) /\ UNCHANGED histFile
       ELSE /\ histFile' = EmptyFile
            /\ pc' = [pc EXCEPT ![p] = "write"]
            /\ UNCHANGED <<diag, resp>>
    /\ UNCHANGED <<disk, call, ret, fault, clock, req, loc>>

\* fsp.writeFile, second half: the text is written from offset 0
LogWrite(p) ==
    /\ pc[p] = "write"
    /\ histFile' = WriteAtZero(histFile, loc[p].buf)
    /\ pc' = [pc EXCEPT ![p] = "ret"]
    /\ UNCHANGED <<disk, call, ret, fault, clock, req, loc, resp, diag>>

\* return { content: [{ type: "text", text: refined }] }
ReturnReport(p) ==
    /\ pc[p] = "ret"
    /\ resp' = [resp EXCEPT ![p] = [type |-> "text", text |-> loc[p].report]]
    /\ pc' = [pc EXCEPT ![p] = "done"]
    /\ UNCHANGED <<disk, call, ret, histFile, fault, clock, req, loc, diag>>


\* what a handler that only reads leaves alone
ReadOnlyFrame == UNCHANGED <<disk, call, ret, histFile, fault, clock, req, loc, diag>>

\* a score_vibe that logs what it scored
ScoreHandlerLogging(p) ==
    /\ pc[p] = "run" /\ req[p].kind = "score_vibe"
    /\ \E prompt \in {PromptText(req[p].parts)} :
       \E score \in {scoreVibe(prompt, req[p].persona, resolveRoot(None), disk)} :
           IF score.threw
           THEN Throw(p) /\ UNCHANGED histFile
           ELSE /\ resp' = [resp EXCEPT ![p] =
                       [type |-> "text",
                        text |-> [score |-> score, secFlags |-> securityCheck(prompt)]]]
                /\ pc' = [pc EXCEPT ![p] = "done"]
                /\ histFile' = LogHistoryResult(histFile, fault,
                                   [OldEntry(clock + 1) EXCEPT !.rawPrompt = prompt])
    /\ UNCHANGED <<disk, call, ret, fault, clock, req, loc, diag>>

\* score_vibe
ScoreHandler(p) ==
    /\ pc[p] = "run" /\ req[p].kind = "score_vibe"
    /\ \E prompt \in {PromptText(req[p].parts)} :
       \E score \in {scoreVibe(prompt, req[p].persona, resolveRoot(None), disk)} :
           IF score.threw
           THEN Throw(p)
           ELSE /\ resp' = [resp EXCEPT ![p] =
                       [type |-> "text",
                        text |-> [score |-> score, secFlags |-> securityCheck(prompt)]]]
                /\ pc' = [pc EXCEPT ![p] = "done"]
    /\ ReadOnlyFrame

\* suggest_vibe_context
SuggestHandler(p) ==
    /\ pc[p] = "run" /\ req[p].kind = "suggest_vibe_context"
    /\ \E files \in {scanProjectFiles(disk.tree, loadConfig(disk.rc))} :
       \E found \in {suggestContext(PromptText(req[p].parts), files)} :
           resp' = [resp EXCEPT ![p] =
                       [type |-> "text",
                        text |-> [scanned |-> Len(files), matched |-> found.matched,
                                  keywords |-> found.keywords]]]
    /\ pc' = [pc EXCEPT ![p] = "done"]
    /\ ReadOnlyFrame

\* detect_tech_stack
DetectHandler(p) ==
    /\ pc[p] = "run" /\ req[p].kind = "detect_tech_stack"
    /\ resp' = [resp EXCEPT ![p] = [type |-> "text", text |-> detectTechStack(disk.tree)]]
    /\ pc' = [pc EXCEPT ![p] = "done"]
    /\ ReadOnlyFrame

\* the vibecheck://history resource
HistoryResource(p) ==
    /\ pc[p] = "run" /\ req[p].kind = "history"
    /\ resp' = [resp EXCEPT ![p] =
                   [type |-> "resource", contents |-> readHistory(histFile, fault)]]
    /\ loc' = [loc EXCEPT ![p].raw = IF fault = "read" THEN NotRead ELSE histFile]
    /\ pc' = [pc EXCEPT ![p] = "done"]
    /\ UNCHANGED <<disk, call, ret, histFile, fault, clock, req, diag>>

Handle(p) ==
    \/ RefineBuild(p)
    \/ LoopBuild(p)
    \/ LogMkdir(p)
    \/ LogRead(p)
    \/ LogOpen(p)
    \/ LogWrite(p)
    \/ ReturnReport(p)
    \/ ScoreHandler(p)
    \/ SuggestHandler(p)
    \/ DetectHandler(p)
    \/ HistoryResource(p)

NextServer == \E p \in Procs : StartRequest(p) \/ Handle(p)

SpecServer == InitServer /\ [][NextServer]_vars

(***************************************************************************)
(* The server with one request at a time                                   *)
(***************************************************************************)
\* a request arrives when no other is in flight
StartAlone(p) ==
    /\ \A q \in Procs \ {p} : pc[q] \in {"idle", "done"}
    /\ StartRequest(p)

NextSeq == \E p \in Procs : StartAlone(p) \/ Handle(p)

SpecSeq == InitServer /\ [][NextSeq]_vars

(***************************************************************************)
(* refine_vibe_prompt beside init_vibecheck: the two scoring passes        *)
(***************************************************************************)
\* the document init_vibecheck writes to .vibecheckrc
RcDefaults == [kind |-> "object", value |->
                  [ignoredDirs |-> DEFAULT_CONFIG.ignoredDirs,
                   ignoredExtensions |-> DEFAULT_CONFIG.ignoredExtensions,
                   maxScanFiles |-> 500,
                   maxScanDepth |-> 10,
                   customPersonas |-> <<>>]]

\* the root directory once a file of that name exists in it
WithFile(tree, n) ==
    IF \E k \in 1..Len(tree.entries) : tree.entries[k].name = n THEN tree
    ELSE [tree EXCEPT !.entries = Append(@, File(n))]

RacePrompts == {
    "fix the login page",
    "add dist and coverage to the gitignore file",
    "validate user inputs and verify the error paths in login.ts" }

RaceRequests ==
    [kind : {"refine_vibe_prompt"}, prompt : RacePrompts,
     persona : {None, Some("Security Auditor")}]
    \cup [kind : {"init_vibecheck"}]

RaceDisks == {
    [tree |-> SmallTree, rc |-> RcAbsent],
    [tree |-> BigTree,   rc |-> RcCustom] }

InitRace ==
    /\ disk \in RaceDisks
    /\ histFile \in {MissingFile, ObjectFile}
    /\ fault = "none"
    /\ call = NoCall
    /\ ret = NoReturn
    /\ clock = 0
    /\ ServerIdle

RaceStart(p) ==
    /\ pc[p] = "idle"
    /\ \E r \in RaceRequests : req' = [req EXCEPT ![p] = r]
    /\ pc' = [pc EXCEPT ![p] = "run"]
    /\ UNCHANGED <<disk, call, ret, histFile, fault, clock, loc, resp, diag>>

\* refined = await refinePrompt(inputPrompt, root, persona)
RefineFirstPass(p) ==
    /\ pc[p] = "run" /\ req[p].kind = "refine_vibe_prompt"
    /\ \E refined \in {refinePrompt(req[p].prompt, resolveRoot(None), req[p].persona, disk)} :
           IF refined.threw
           THEN Throw(p) /\ UNCHANGED loc
           ELSE /\ loc' = [loc EXCEPT ![p].report = refined]
                /\ pc' = [pc EXCEPT ![p] = "rescore"]
                /\ UNCHANGED resp
    /\ UNCHANGED <<disk, call, ret, histFile, fault, clock, req, diag>>

\* score = await scoreVibe(inputPrompt, persona, root), then the entry
RefineSecondPass(p) ==
    /\ pc[p] = "rescore"
    /\ \E score \in {scoreVibe(req[p].prompt, req[p].persona, resolveRoot(None), disk)} :
           IF score.threw
           THEN Throw(p) /\ UNCHANGED <<loc, clock>>
           ELSE /\ clock' = clock + 1
                /\ loc' = [loc EXCEPT ![p].entry =
                               RefineEntry(clock + 1, req[p].prompt, req[p].persona,
                                           resolveRoot(None), loc[p].report, disk)]
                /\ pc' = [pc EXCEPT ![p] = "log"]
                /\ UNCHANGED resp
    /\ UNCHANGED <<disk, call, ret, histFile, fault, req, diag>>

\* await logHistory(entry, root); return the report.  The steps of
\* logHistory are taken as one here.
RefineLogAndReturn(p) ==
    /\ pc[p] = "log"
    /\ histFile' = LogHistoryResult(histFile, fault, loc[p].entry)
    /\ resp' = [resp EXCEPT ![p] = [type |-> "text", text |-> loc[p].report]]
    /\ pc' = [pc EXCEPT ![p] = "done"]
    /\ UNCHANGED <<disk, call, ret, fault, clock, req, loc, diag>>

\* init_vibecheck: writeFile opens .vibecheckrc, which creates or empties it
InitOpenConfig(p) ==
    /\ pc[p] = "run" /\ req[p].kind = "init_vibecheck"
    /\ disk' = [tree |-> WithFile(disk.tree, ".vibecheckrc"), rc |-> RcUnparsable]
    /\ pc' = [pc EXCEPT ![p] = "config"]
    /\ UNCHANGED <<call, ret, histFile, fault, clock, req, loc, resp, diag>>

\* ... and writes the default document
InitWriteConfig(p) ==
    /\ pc[p] = "config"
    /\ disk' = [disk EXCEPT !.rc = RcDefaults]
    /\ pc' = [pc EXCEPT ![p] = "gitignore"]
    /\ UNCHANGED <<call, ret, histFile, fault, clock, req, loc, resp, diag>>

\* the .gitignore of the root receives the history entry; the .vibecheck
\* directory made before it is one the scanner never enters
InitWriteGitignore(p) ==
    /\ pc[p] = "gitignore"
    /\ disk' = [disk EXCEPT !.tree = WithFile(@, ".gitignore")]
    /\ resp' = [resp EXCEPT ![p] = [type |-> "text", text |-> "VibeCheck Initialized"]]
    /\ pc' = [pc EXCEPT ![p] = "done"]
    /\ UNCHANGED <<call, ret, histFile, fault, clock, req, loc, diag>>

NextRace ==
    \E p \in Procs :
        \/ RaceStart(p)
        \/ RefineFirstPass(p)
        \/ RefineSecondPass(p)
        \/ RefineLogAndReturn(p)
        \/ InitOpenConfig(p)
        \/ InitWriteConfig(p)
        \/ InitWriteGitignore(p)

SpecRace == InitRace /\ [][NextRace]_vars


(***************************************************************************)
(* Properties of the library functions (checked under SpecPure)            *)
(***************************************************************************)
ScoreReturned == ret.fn = "scoreVibe" /\ ~ret.value.threw

\* C1: every score that scoreVibe returns has specificity in 0..30,
\* contextAvailability in 0..30, acceptanceCriteria in 0..20 and
\* personaAlignment in 0..20, and its total is the sum of the four.
ScoreWithinCaps ==
    ScoreReturned =>
        LET v == ret.value
        IN  /\ v.specificity \in 0..30
            /\ v.contextAvailability \in 0..30
            /\ v.acceptanceCriteria \in 0..20
            /\ v.personaAlignment \in 0..20
            /\ v.total = v.specificity + v.contextAvailability
                         + v.acceptanceCriteria + v.personaAlignment

\* a score whose context signals add up to more than the cap: more than
\* five matching files, a code fence, an error term and an import
ScoreCapReached ==
    /\ ScoreReturned
    /\ ret.value.contextAvailability = 30
    /\ IsSome(call.projectRoot)
    /\ HasCodeFence(PromptText(call.parts))
    /\ HasErrorTerm(PromptText(call.parts))
    /\ FileMatchTier(PromptText(call.parts), disk) = 15

\* C8: scoreVibe returns a score for every prompt, persona key, project
\* root and configuration, custom personas of any shape included; it never
\* throws.
ScoreVibeNeverThrows ==
    ret.fn = "scoreVibe" => ~ret.value.threw

\* C9: the badge is a function of the total alone: ELITE from 80, STRONG
\* from 60, DECENT from 40, WEAK from 20, each bound included, LAZY below.
BadgeByTotal ==
    ScoreReturned =>
        LET InTable(t, b) ==
                /\ b = "ELITE"  <=> t >= 80
                /\ b = "STRONG" <=> (t >= 60 /\ t <= 79)
                /\ b = "DECENT" <=> (t >= 40 /\ t <= 59)
                /\ b = "WEAK"   <=> (t >= 20 /\ t <= 39)
                /\ b = "LAZY"   <=> t <= 19
        IN  /\ InTable(ret.value.total, ret.value.badge)
            /\ \A t \in 0..100 : InTable(t, Badge(t))

\* a score that sits exactly on the lowest total of the top badge
BadgeOnBoundary ==
    ScoreReturned /\ ret.value.total = 80 /\ ret.value.badge = "ELITE"

\* C10: securityCheck returns the flag of every rule that matches the
\* prompt, in the order of the catalog, with no rule skipped after a
\* match, and the empty list when no rule matches.
FlagsInCatalogOrder ==
    ret.fn = "securityCheck" =>
        LET prompt == PromptText(call.parts)
            hits   == {k \in 1..Len(SECURITY_PATTERNS) :
                          PatternTest(SECURITY_PATTERNS[k].pattern, prompt)}
            flags  == ret.value
        IN  /\ Len(flags) = Cardinality(hits)
            /\ \A i \in 1..Len(flags) :
                  \E k \in hits :
                     /\ Cardinality({j \in hits : j < k}) = i - 1
                     /\ flags[i] = SECURITY_PATTERNS[k].flag

\* a prompt that several rules match, and not all of them
SeveralFlagsReturned ==
    /\ ret.fn = "securityCheck"
    /\ Len(ret.value) >= 2
    /\ Len(ret.value) < Len(SECURITY_PATTERNS)


(***************************************************************************)
(* Properties of the history log                                           *)
(***************************************************************************)
\* C2: after n awaited appends the history holds the min(n, 200) entries
\* appended last, in the order of their appends.
HistoryKeepsMostRecent ==
    clock >= 1 =>
        LET n    == clock
            kept == histFile.entries
        IN  /\ histFile.kind = "array"
            /\ Len(kept) = Min(n, 200)
            /\ \A i \in 1..Len(kept) : kept[i].timestamp = n - Len(kept) + i

\* 205 appends: 200 entries are left and the oldest of them is the sixth
OldestFiveEvicted ==
    /\ clock = 205
    /\ Len(histFile.entries) = 200
    /\ histFile.entries[1].timestamp = 6
    /\ histFile.entries[200].timestamp = 205

Occurrences(entries, e) == Cardinality({i \in 1..Len(entries) : entries[i] = e})

\* C3: with one request at a time and a working file system, every
\* refine_vibe_prompt and refinement_loop request that returned its report
\* has put its entry into the history, once, whatever the file held before.
EveryRefineLogsOnce ==
    \A p \in Procs :
        (/\ pc[p] = "done"
         /\ req[p].kind \in WriterKinds
         /\ resp[p].type = "text"
         /\ fault = "none")
        => /\ histFile.kind = "array"
           /\ Occurrences(histFile.entries, loc[p].entry) = 1

\* C4: a step of a score_vibe, suggest_vibe_context or detect_tech_stack
\* request leaves the history document as it was.
ReadOnlyToolsKeepHistory ==
    [][\A p \in Procs :
          (req'[p].kind \in ReadOnlyKinds /\ pc'[p] # pc[p])
          => histFile' = histFile]_vars

\* two different read-only tools have answered over a history with entries
ReadOnlyToolsAnswered ==
    /\ histFile.kind = "array" /\ Len(histFile.entries) > 0
    /\ \E p, q \in Procs :
          /\ req[p].kind = "score_vibe" /\ req[q].kind \in ReadOnlyKinds \ {"score_vibe"}
          /\ pc[p] = "done" /\ pc[q] = "done"
          /\ resp[p].type = "text" /\ resp[q].type = "text"

\* C5: once two logHistory calls that interleaved have both written, the
\* history document is the array of the one that wrote last.
LastWriterWins ==
    (/\ fault = "none"
     /\ \A p \in Procs : /\ pc[p] = "done"
                         /\ req[p].kind \in WriterKinds
                         /\ resp[p].type = "text"
                         /\ p \notin diag)
    => \E p \in Procs : histFile = ArrayFile(loc[p].buf)

\* C6: what a read of the history file finds is a complete document, the
\* one before an append or the one after it, never an empty or a partly
\* written file.
ReadersSeeWholeDocument ==
    \A p \in Procs : loc[p].raw.kind \notin {"empty", "torn"}

\* C7: a refine_vibe_prompt or refinement_loop request whose history write
\* failed has returned its report, not an error.
LogFailureKeepsReport ==
    \A p \in Procs :
        (/\ pc[p] = "done"
         /\ req[p].kind \in WriterKinds
         /\ loc[p].entry # NoEntry
         /\ (p \in diag \/ fault # "none"))
        => resp[p] = [type |-> "text", text |-> loc[p].report]

\* a request got its report although the history directory or file could
\* not be written, and the failure was printed
ReportDespiteLogFailure ==
    \E p \in Procs :
        /\ fault \in {"mkdir", "write"}
        /\ p \in diag
        /\ pc[p] = "done"
        /\ resp[p].type = "text" /\ ~resp[p].text.threw


(***************************************************************************)
(* Properties of the score_vibe tool                                       *)
(***************************************************************************)
\* C11: the score_vibe report for the prompt "disable auth and hardcode the
\* admin password as 'admin123' in config.ts" lists both the flag of the
\* disable-authentication rule and the flag of the hardcoded-secrets rule.
ScoreFlagsAuthAndSecret ==
    \A p \in Procs :
        (/\ pc[p] = "done"
         /\ req[p].kind = "score_vibe"
         /\ PromptText(req[p].parts) = Fragments[6]
         /\ resp[p].type = "text")
        => LET flags == resp[p].text.secFlags
           IN  /\ \E i \in 1..Len(flags) : flags[i] = SECURITY_PATTERNS[1].flag
               /\ \E i \in 1..Len(flags) : flags[i] = SECURITY_PATTERNS[4].flag


(***************************************************************************)
(* Direct calls of the other library functions                             *)
(***************************************************************************)
\* queries for suggestContext; the second has no keyword
Queries == {
    "",
    "add a fix to it",
    "fix the login page",
    "auth login session",
    "LOGIN login Login!",
    "Settings page",
    "  Fix the LOGIN page; login-page, Page_2 and the page!  ",
    "user's e-mail:\tre-send it (v2.10) --- ok\nthe Login" }

\* the paths a scan may hand to suggestContext, in scan order
CandidatePool == <<
    "src/auth/login.ts",
    "src/auth/session.ts",
    "src/pages/login.tsx",
    "src/pages/settings.tsx",
    "docs/login.md",
    "login/index.ts",
    "src/auth/index.ts",
    "README.md",
    "src/pages/Login.css",
    "src/login/page.ts",
    "src/page/login-page.ts",
    "tests/login.test.ts",
    "tests/session.test.ts",
    "src/auth/login/helper.ts",
    "src/auth/auth.ts",
    "pages/home.tsx",
    "login/login/login.ts",
    "src/loginpage.ts",
    "lib/login1.ts",
    "lib/login2.ts",
    "lib/page.md",
    "pages/login/index.ts",
    "Makefile" >>

Reverse(seq) == [i \in 1..Len(seq) |-> seq[Len(seq) + 1 - i]]

\* candidate lists: the first n paths of the pool, in either order
CandidateLists ==
    {SubSeq(CandidatePool, 1, n) : n \in 0..Len(CandidatePool)}
    \cup {SubSeq(Reverse(CandidatePool), 1, n) : n \in 0..Len(CandidatePool)}

SuggestCalls == [fn : {"suggestContext"}, query : Queries, files : CandidateLists]

\* requested persona keys: known ones in several capitalisations, unknown
\* ones, the empty string and no key
RequestedKeys == {
    None, Some(""), Some("default"), Some("Default"),
    Some("security auditor"), Some("Security Auditor"), Some("SECURITY AUDITOR"),
    Some("qa lead"), Some("QA Lead"), Some("Qa LEAD"),
    Some("nobody"), Some("Intern"),
    Some("constructor"), Some("Constructor"), Some("__proto__"), Some("toString") }

PersonaCalls ==
    [fn : {"resolvePersona"},
     rc : {RcAbsent, RcScalar, RcCustom, RcNoConstraints, RcNullDefault},
     key : RequestedKeys]

Dep(n, v) == [name |-> n, version |-> v]

TechStacks == {
    [dependencies |-> << Dep("react", "18.2.0"), Dep("Next", "14.0.0") >>,
     devDependencies |-> << Dep("jest", "29.7.0"), Dep("react", "17.0.2") >>],
    [dependencies |-> << >>,
     devDependencies |-> << Dep("React", "16.8.0"), Dep("typescript", "5.4.0") >>],
    [dependencies |-> << Dep("react-native", "0.74.0"), Dep("preact", "10.0.0") >>,
     devDependencies |-> << Dep("@types/react", "18.0.0"), Dep("ts-jest", "29.1.0") >>],
    [dependencies |-> << Dep("React", "1.0.0"), Dep("react", "2.0.0") >>,
     devDependencies |-> << Dep("JEST", "28.0.0") >>],
    [dependencies |-> << >>, devDependencies |-> << >>] }

DependencyCalls ==
    [fn : {"checkDependency"},
     lib : {"react", "React", "REACT", "jest", "Jest", "next", "act", "types", "zod", ""},
     ts : TechStacks]

\* prompts that mention a library: text before the name, the name, text
\* after it
MentionLeft == {"", "use ", "use (", "use [", "use -", "use '", "we/", "un"}

MentionRight == {"", " now", ", now", ".", ";", ")", "]", "!", "?", "-dom", "s"}

MentionNames == {"react", "Redis", "next.js", "NEXTJS"}

MentionPrompts ==
    {l \o n \o r : l \in MentionLeft, n \in MentionNames, r \in MentionRight}
    \cup { "React, vue and nextjs.",
           "my reaction to the preview: invite the expressive dockers",
           "no library here" }

MentionCalls == [fn : {"extractMentionedLibraries"}, prompt : MentionPrompts]

\* project roots for detectTechStack: every choice of the three manifests
PackageJsons == {
    <<>>,
    << Manifest("package.json", [kind |-> "unparsable"]) >>,
    << Manifest("package.json", [kind |-> "null"]) >>,
    << Manifest("package.json", [kind |-> "scalar"]) >>,
    << Manifest("package.json", [kind |-> "eacces"]) >>,
    << File("package.json") >>,
    << Dir("package.json", <<>>) >>,
    << Manifest("package.json", JsonObject([name |-> "bare"])) >>,
    << Manifest("package.json", JsonObject(
          [dependencies |-> << Dep("express", "^4.18.0"), Dep("react", "18.2.0"),
                               Dep("React-Native", "0.74.0") >>,
           devDependencies |-> << Dep("typescript", "5.4.0"), Dep("react", "17.0.2"),
                                  Dep("vue", "") >>])) >> }

RequirementsTxts == {
    <<>>,
    << Manifest("requirements.txt", [kind |-> "eacces"]) >>,
    << Manifest("requirements.txt", Text(<<
          "# web", "", "Django>=4.2", "django == 3.2.1 ", "flask", "  fastapi~=0.110",
          "-r base.txt", "numpy==1.26.*", "requests >= ", "@bad", "flask<3" >>)) >> }

GoMods == {
    <<>>,
    << Manifest("go.mod", Text(<<
          "module example.com/app", "", "go 1.21", "require (",
          "\tgithub.com/gin-gonic/gin v1.9.1", "\tgolang.org/x/text v0.14.0 // indirect",
          ")", "require github.com/x/y v1.0.0", "module v2", "tool vault" >>)) >> }

TechTrees ==
    {[readable |-> TRUE, entries |-> g \o r \o << File("main.py") >> \o p] :
        g \in GoMods, r \in RequirementsTxts, p \in PackageJsons}
    \cup {LockedTree}

DetectCalls == [fn : {"detectTechStack"}, tree : TechTrees]

\* a prompt and a longer one with the same features: the base text filled
\* up to a length with a character that no scoring expression looks for
RECURSIVE Filler(_)
Filler(n) ==
    IF n <= 0 THEN ""
    ELSE IF n = 1 THEN "#"
    ELSE Filler(n \div 2) \o Filler(n - n \div 2)

PadTo(base, n) == base \o Filler(n - Len(base))

PadLengths == {0, 49, 50, 51, 100, 101, 200, 201, 230}

BasePrompts ==
    {"", "the api in login.ts, line 42", Fragments[8], Fragments[2], Fragments[3],
     Fragments[5]}

LengthenCalls ==
    {c \in [fn : {"scoreVibe twice"}, base : BasePrompts,
            from : PadLengths, to : PadLengths] : c.from < c.to}

\* a project with nested directories, a hidden and an ignored directory, a
\* symbolic link, a directory that cannot be read and files of ignored kinds
ScanTree == [readable |-> TRUE, entries |-> <<
    Dir("a", <<
        File("a1.ts"),
        Dir("b", << File("b1.ts"), Dir("c", << File("c1.ts"), File("c2.map") >>) >>),
        Dir(".cache", << File("x.ts") >>) >>),
    Dir(".hidden", << File("h.ts") >>),
    Dir("dist", << File("bundle.js") >>),
    Link("up"),
    LockedDir("locked"),
    File("app.min.js"),
    File("photo.PNG"),
    File("notes.log"),
    File(".env"),
    File("main.ts") >> ]

ScanConfigs == {
    EmptyConfig,
    [maxScanDepth |-> 1],
    [maxScanFiles |-> 2],
    [maxScanFiles |-> 0, maxScanDepth |-> 0],
    [ignoredDirs |-> {"a"}, ignoredExtensions |-> {".ts"}],
    RcCustom.value }

ScanCalls ==
    [fn : {"scanProjectFiles"},
     tree : {ScanTree, SmallTree, BigTree, LockedTree},
     config : ScanConfigs]

\* a custom persona with more constraints than the alignment cap pays for
ReviewerPersona == [
    name |-> "Reviewer",
    expertConstraints |-> <<
        "Check naming first.",
        "Prefer small commits and small reviews",
        "Document every public module",
        "Measure latency before tuning",
        "Guard against NULL pointers",
        "Keep the build green.",
        "Avoid global state",
        "Trace each request\tacross services",
        "Do it now" >> ]

RcReviewer == [kind |-> "object", value |->
                  [customPersonas |-> << [key |-> "reviewer", val |-> ReviewerPersona] >>]]

AlignPrompts == {
    "",
    "do it now",
    "add error handling",
    "ADD ERROR HANDLING for all edge cases.",
    "the terrors of edge cases",
    "names and patterns",
    "small commits, small reviews, then check the naming",
    "Naming, commits, module docs, latency, pointers and the build",
    "naming commits module latency pointers build global",
    "naming commits module latency pointers build global request services",
    "NAMING COMMITS PUBLIC MEASURE GUARD GREEN. AVOID TRACE REVIEWS",
    "scalability and logging with observability for concurrent access" }

AlignCalls ==
    [fn : {"scoreVibe persona"},
     prompt : AlignPrompts,
     personaKey : {None, Some("Reviewer"), Some("senior engineer")},
     rc : {RcAbsent, RcReviewer}]

\* prompts for refinePrompt: with and without security flags, file
\* references, acceptance words and library names, at lengths around 50
RefinePrompts ==
    { PadTo(b, n) : b \in {"", "fix login.ts", "it must work", "use react in app.tsx; Expect a 200"},
                    n \in {49, 50, 51} }
    \cup { Fragments[i] : i \in {2, 3, 4, 6, 7, 8} }
    \cup { "",
           "sudo rm and eval (x): the login page must return",
           "fix the login page, skip validation in login.ts with redis and sudo" }

RefineDisks == {
    [tree |-> SmallTree,  rc |-> RcAbsent],
    [tree |-> BigTree,    rc |-> RcAbsent],
    [tree |-> BigTree,    rc |-> RcCustom],
    [tree |-> LockedTree, rc |-> RcUnparsable] }

RefineCalls ==
    [fn : {"refinePrompt"},
     prompt : RefinePrompts,
     projectRoot : {None, Some(ResolvedRoot)},
     disk : RefineDisks]

\* the arguments of refinement_loop
LoopOriginals == {"", Fragments[8], Fragments[6], Fragments[2], PadTo("fix login.ts", 50)}

LoopFeedbacks == {
    "",
    Feedback,
    "it must return 401; disable auth",
    "when the SESSION ends then the test should verify error handling, line 7",
    "~~~import x from 'y'~~~ in settings.tsx and docs/auth-flow.md",
    Fragments[5] }

PriorReports == {"", RefinedBefore, "## completion checklist", "# Refined\n- Completion Checklist: done"}

LoopCalls ==
    [fn : {"refineWithFeedback"},
     original : {Fragments[8], Fragments[6]},
     feedback : {"", Feedback, "it must return 401; disable auth"},
     refined : PriorReports,
     personaKey : {None, Some("Senior Engineer")},
     disk : {[tree |-> SmallTree, rc |-> RcAbsent], [tree |-> BigTree, rc |-> RcCustom]}]

FoldCalls ==
    [fn : {"scoreVibe folded"},
     original : LoopOriginals,
     feedback : LoopFeedbacks,
     personaKey : {None, Some("Senior Engineer")},
     disk : {[tree |-> SmallTree, rc |-> RcAbsent], [tree |-> BigTree, rc |-> RcCustom],
             [tree |-> BigTree, rc |-> RcNoConstraints]}]

LibCalls ==
    SuggestCalls \cup PersonaCalls \cup DependencyCalls \cup MentionCalls
    \cup DetectCalls \cup LengthenCalls \cup ScanCalls \cup AlignCalls
    \cup RefineCalls \cup LoopCalls \cup FoldCalls

InitLib ==
    /\ disk = [tree |-> SmallTree, rc |-> RcAbsent]
    /\ call \in LibCalls
    /\ ret = NoReturn
    /\ histFile = MissingFile
    /\ fault = "none"
    /\ clock = 0
    /\ ServerIdle

LibFrame == UNCHANGED <<disk, call, histFile, fault, clock, pc, req, loc, resp, diag>>

\* { matched, keywords } = suggestContext(query, files)
CallSuggestContext ==
    /\ ret = NoReturn
    /\ call.fn = "suggestContext"
    /\ ret' = [fn |-> "suggestContext", value |-> suggestContext(call.query, call.files)]
    /\ LibFrame

\* the same call once more
CallSuggestContextAgain ==
    /\ ret.fn = "suggestContext"
    /\ "again" \notin DOMAIN ret
    /\ ret' = [fn |-> "suggestContext", value |-> ret.value,
               again |-> suggestContext(call.query, call.files)]
    /\ LibFrame

\* resolvePersona(loadConfig(projectRoot), personaKey)
CallResolvePersona ==
    /\ ret = NoReturn
    /\ call.fn = "resolvePersona"
    /\ ret' = [fn |-> "resolvePersona",
               value |-> resolvePersona(loadConfig(call.rc), call.key)]
    /\ LibFrame

\* checkDependency(lib, ts)
CallCheckDependency ==
    /\ ret = NoReturn
    /\ call.fn = "checkDependency"
    /\ ret' = [fn |-> "checkDependency", value |-> checkDependency(call.lib, call.ts)]
    /\ LibFrame

\* extractMentionedLibraries(prompt)
CallExtractLibraries ==
    /\ ret = NoReturn
    /\ call.fn = "extractMentionedLibraries"
    /\ ret' = [fn |-> "extractMentionedLibraries",
               value |-> extractMentionedLibraries(call.prompt)]
    /\ LibFrame

\* await detectTechStack(projectRoot)
CallDetectTechStack ==
    /\ ret = NoReturn
    /\ call.fn = "detectTechStack"
    /\ ret' = [fn |-> "detectTechStack", value |-> detectTechStack(call.tree)]
    /\ LibFrame

\* a = await scoreVibe(shorter); b = await scoreVibe(longer)
CallScoreVibeTwice ==
    /\ ret = NoReturn
    /\ call.fn = "scoreVibe twice"
    /\ ret' = [fn |-> "scoreVibe twice",
               shorter |-> scoreVibe(PadTo(call.base, call.from), None, None, disk),
               longer |-> scoreVibe(PadTo(call.base, call.to), None, None, disk)]
    /\ LibFrame

\* files = await scanProjectFiles(rootDir, config)
CallScanProjectFiles ==
    /\ ret = NoReturn
    /\ call.fn = "scanProjectFiles"
    /\ ret' = [fn |-> "scanProjectFiles",
               value |-> scanProjectFiles(call.tree, call.config)]
    /\ LibFrame

\* score = await scoreVibe(prompt, personaKey, projectRoot)
CallScoreVibePersona ==
    /\ ret = NoReturn
    /\ call.fn = "scoreVibe persona"
    /\ ret' = [fn |-> "scoreVibe persona",
               value |-> scoreVibe(call.prompt, call.personaKey, Some(ResolvedRoot),
                                   [tree |-> SmallTree, rc |-> call.rc])]
    /\ LibFrame

\* refined = await refinePrompt(rawPrompt, projectRoot)
CallRefinePrompt ==
    /\ ret = NoReturn
    /\ call.fn = "refinePrompt"
    /\ ret' = [fn |-> "refinePrompt",
               value |-> refinePrompt(call.prompt, call.projectRoot, None, call.disk)]
    /\ LibFrame

\* the body of the refinement_loop handler up to its logHistory call: the
\* V2 report and the entry it hands to logHistory
CallRefineWithFeedback ==
    /\ ret = NoReturn
    /\ call.fn = "refineWithFeedback"
    /\ \E v2 \in {refineWithFeedback(call.original, call.refined, call.feedback,
                                      call.personaKey, resolveRoot(None), call.disk)} :
          ret' = [fn |-> "refineWithFeedback",
                  value |-> v2,
                  entry |-> IF v2.threw THEN NoEntry
                            ELSE LoopEntry(0, call.original, call.feedback,
                                           call.personaKey, v2)]
    /\ LibFrame

\* before = await scoreVibe(original, persona, root);
\* after = await scoreVibe(combined, persona, root)
CallScoreVibeFolded ==
    /\ ret = NoReturn
    /\ call.fn = "scoreVibe folded"
    /\ ret' = [fn |-> "scoreVibe folded",
               before |-> scoreVibe(call.original, call.personaKey,
                                    resolveRoot(None), call.disk),
               after |-> scoreVibe(FoldFeedback(call.original, call.feedback),
                                   call.personaKey, resolveRoot(None), call.disk)]
    /\ LibFrame

NextLib ==
    \/ CallScanProjectFiles
    \/ CallRefineWithFeedback
    \/ CallScoreVibeFolded
    \/ CallRefinePrompt
    \/ CallScoreVibePersona
    \/ CallSuggestContext
    \/ CallSuggestContextAgain
    \/ CallResolvePersona
    \/ CallCheckDependency
    \/ CallExtractLibraries
    \/ CallDetectTechStack
    \/ CallScoreVibeTwice

SpecLib == InitLib /\ [][NextLib]_vars


(***************************************************************************)
(* Properties of suggestContext                                            *)
(***************************************************************************)
SuggestReturned == ret.fn = "suggestContext"

\* the relevance of a path as the documentation words it
InBasename(fp, k) == includes(toLowerCase(basename(fp)), k)

InPathOnly(fp, k) == includes(toLowerCase(fp), k) /\ ~InBasename(fp, k)

Relevance(fp, kws) ==
    3 * Cardinality({i \in 1..Len(kws) : InBasename(fp, kws[i])})
    + Cardinality({i \in 1..Len(kws) : InPathOnly(fp, kws[i])})

PositiveCandidates(files, kws) ==
    SelectSeq(files, LAMBDA fp : Relevance(fp, kws) > 0)

IndexIn(files, fp) == CHOOSE i \in 1..Len(files) : files[i] = fp

BoundedPositive(m, files, kws) ==
    /\ Len(m) <= 15
    /\ \A i \in 1..Len(m) :
        /\ \E j \in 1..Len(files) : files[j] = m[i]
        /\ Relevance(m[i], kws) > 0
    /\ (kws = <<>> => m = <<>>)

\* C12: suggestContext returns at most 15 paths, each of them one of the
\* candidate paths with a relevance above 0, and it returns no path when the
\* query has no keyword.
SuggestAtMostFifteenPositive ==
    SuggestReturned =>
        BoundedPositive(ret.value.matched, call.files, ret.value.keywords)

SuggestCutAtFifteen ==
    /\ SuggestReturned
    /\ Len(ret.value.matched) = 15
    /\ Len(PositiveCandidates(call.files, ret.value.keywords)) > 15

RankedStable(m, files, kws) ==
    /\ Len(m) = Min(15, Len(PositiveCandidates(files, kws)))
    /\ \A i, j \in 1..Len(m) :
        i < j =>
            /\ Relevance(m[i], kws) >= Relevance(m[j], kws)
            /\ (Relevance(m[i], kws) = Relevance(m[j], kws)
                    => IndexIn(files, m[i]) < IndexIn(files, m[j]))
    /\ \A k \in 1..Len(files) :
        (\A i \in 1..Len(m) : m[i] # files[k])
            => \A i \in 1..Len(m) : Relevance(files[k], kws) <= Relevance(m[i], kws)

\* C13: the returned list is the first 15 of the candidates with a positive
\* score in descending score order: an earlier path scores at least as much as
\* a later one, paths of equal score keep their input order, and no candidate
\* left out scores more than a returned one.
SuggestRankedStable ==
    SuggestReturned =>
        RankedStable(ret.value.matched, call.files, ret.value.keywords)

SortMoved(m, pos, kws) ==
    /\ Len(m) = 15
    /\ Len(pos) > 15
    /\ m # SubSeq(pos, 1, 15)
    /\ \E i \in 1..14 : Relevance(m[i], kws) = Relevance(m[i + 1], kws)
    /\ \E i \in 1..14 : Relevance(m[i], kws) > Relevance(m[i + 1], kws)

SuggestTiesAndCut ==
    /\ SuggestReturned
    /\ SortMoved(ret.value.matched,
                 PositiveCandidates(call.files, ret.value.keywords),
                 ret.value.keywords)

AllInBasename(fp, kws) == \A i \in 1..Len(kws) : InBasename(fp, kws[i])

AllInPathOnly(fp, kws) == \A i \in 1..Len(kws) : InPathOnly(fp, kws[i])

ScoreRule(files, kws) ==
    /\ \A i \in 1..Len(files) : fileScore(files[i], kws) = Relevance(files[i], kws)
    /\ \A i, j \in 1..Len(files) :
        (AllInBasename(files[i], kws) /\ AllInPathOnly(files[j], kws))
            => fileScore(files[i], kws) >= fileScore(files[j], kws)

\* C14: the score of a candidate is 3 for each keyword found in its lower-cased
\* basename plus 1 for each keyword found in its lower-cased path but not in
\* its basename; a candidate with every keyword in its basename scores at
\* least as much as one with the same keywords only outside its basename.
SuggestScoreRule ==
    SuggestReturned => ScoreRule(call.files, extractKeywords(call.query))

MixedScores(files, kws) ==
    /\ Len(kws) >= 2
    /\ \E i \in 1..Len(files) :
        /\ \E a \in 1..Len(kws) : InBasename(files[i], kws[a])
        /\ \E b \in 1..Len(kws) : InPathOnly(files[i], kws[b])
    /\ \E i, j \in 1..Len(files) :
        AllInBasename(files[i], kws) /\ AllInPathOnly(files[j], kws)

SuggestMixedScores ==
    /\ SuggestReturned
    /\ MixedScores(call.files, ret.value.keywords)


(***************************************************************************)
(* Properties of resolvePersona                                            *)
(***************************************************************************)
PersonaReturned == ret.fn = "resolvePersona"

RequestedLower(key) == IF IsSome(key) THEN toLowerCase(key[1]) ELSE ""

\* the keys the merged table holds: built-in ones and lower-cased custom ones
KnownKey(config, lk) ==
    \/ lk \in DOMAIN BUILTIN_PERSONAS
    \/ /\ "customPersonas" \in DOMAIN config
       /\ CustomHas(config.customPersonas, lk)

FoldsOrFallsBack(config, lk, value) ==
    IF KnownKey(config, lk)
    THEN value = resolvePersona(config, Some(lk))
    ELSE value = getPersonas(config)["default"]

\* C15: a known persona key resolves to the same persona in every
\* capitalisation, and a missing or unknown key resolves to the persona stored
\* under "default".
ResolveFoldsCaseOrFallsBack ==
    PersonaReturned =>
        FoldsOrFallsBack(loadConfig(call.rc), RequestedLower(call.key), ret.value)

IsPersona(v) == "name" \in DOMAIN v /\ "expertConstraints" \in DOMAIN v

\* C16: whatever customPersonas holds, "default" maps to a persona definition
\* in the merged table and resolvePersona returns a persona with a constraint
\* list for every requested key (here: every key that the table answers by
\* an entry of its own or by the fallback).
ResolveAlwaysPersona ==
    (PersonaReturned /\ RequestedLower(call.key) \notin DOMAIN ObjectPrototype) =>
        /\ IsPersona(getPersonas(loadConfig(call.rc))["default"])
        /\ IsPersona(ret.value)


(***************************************************************************)
(* Properties of checkDependency                                           *)
(***************************************************************************)
DependencyReturned == ret.fn = "checkDependency"

Declares(entries, lib) ==
    \E i \in 1..Len(entries) : toLowerCase(entries[i].name) = toLowerCase(lib)

VersionFrom(entries, lib, version) ==
    \E i \in 1..Len(entries) :
        /\ toLowerCase(entries[i].name) = toLowerCase(lib)
        /\ entries[i].version = version

LookupRule(lib, ts, r) ==
    IF Declares(ts.dependencies, lib)
    THEN r.found /\ ~r.isDev /\ VersionFrom(ts.dependencies, lib, r.version)
    ELSE IF Declares(ts.devDependencies, lib)
         THEN r.found /\ r.isDev /\ VersionFrom(ts.devDependencies, lib, r.version)
         ELSE ~r.found /\ ~r.isDev /\ r.version = NullValue

\* C17: checkDependency compares names for equality without regard to case,
\* production dependencies before development dependencies: a name in both
\* gives the production version with isDev false, a name only in the
\* development table gives isDev true, and a name in neither (one that is only
\* part of a dependency name included) gives found false with a null version.
DependencyLookupExact ==
    DependencyReturned => LookupRule(call.lib, call.ts, ret.value)

DependencyInBothTables ==
    /\ DependencyReturned
    /\ Declares(call.ts.dependencies, call.lib)
    /\ Declares(call.ts.devDependencies, call.lib)
    /\ \E i \in 1..Len(call.ts.dependencies) : call.ts.dependencies[i].name # call.lib
    /\ ret.value.found
    /\ ~ret.value.isDev
    /\ ~VersionFrom(call.ts.devDependencies, call.lib, ret.value.version)


(***************************************************************************)
(* Properties of extractMentionedLibraries                                 *)
(***************************************************************************)
MentionsReturned == ret.fn = "extractMentionedLibraries"

\* ordinary punctuation of written text (the hyphen, which joins words, is
\* not counted)
OrdinaryPunctuation ==
    {".", ",", ";", ":", "!", "?", "'", "\"", "(", ")", "[", "]", "/"}

Boundary(c) == IsWs(c) \/ c \in OrdinaryPunctuation

\* name occurs in text with whitespace, punctuation or a string edge on
\* either side
Flanked(text, name) ==
    \E i \in 1..(Len(text) - Len(name) + 1) :
        /\ MatchAt(text, name, i)
        /\ (i = 1 \/ Boundary(At(text, i - 1)))
        /\ (i + Len(name) - 1 = Len(text) \/ Boundary(At(text, i + Len(name))))

Reported(list, name) == \E i \in 1..Len(list) : list[i] = name

\* C18: extractMentionedLibraries reports a known library exactly when its
\* name occurs in the prompt with whitespace, a punctuation character or a
\* string edge on both sides.
MentionedIffFlanked ==
    MentionsReturned =>
        \A k \in 1..Len(KnownLibraries) :
            Reported(ret.value, KnownLibraries[k])
                <=> Flanked(toLowerCase(call.prompt), KnownLibraries[k])


(***************************************************************************)
(* Properties of detectTechStack                                           *)
(***************************************************************************)
DetectReturned == ret.fn = "detectTechStack"

\* the root holds a file of this name that can be read
Readable(tree, n) ==
    /\ tree.readable
    /\ \E i \in 1..Len(tree.entries) :
        /\ tree.entries[i].name = n
        /\ tree.entries[i].type = "file"
        /\ ("content" \in DOMAIN tree.entries[i] => tree.entries[i].content.kind # "eacces")

\* the root holds a package.json that is a JSON document other than null
WellFormedPackage(tree) ==
    /\ tree.readable
    /\ \E i \in 1..Len(tree.entries) :
        /\ tree.entries[i].name = "package.json"
        /\ tree.entries[i].type = "file"
        /\ "content" \in DOMAIN tree.entries[i]
        /\ tree.entries[i].content.kind \in {"object", "scalar"}

IsStackOf(r, runtime, source) ==
    r.found /\ r.runtime = runtime /\ r.source = source

FirstUsableManifest(tree, r) ==
    IF WellFormedPackage(tree) THEN IsStackOf(r, "Node.js", "package.json")
    ELSE IF Readable(tree, "requirements.txt")
         THEN IsStackOf(r, "Python", "requirements.txt")
         ELSE IF Readable(tree, "go.mod") THEN IsStackOf(r, "Go", "go.mod")
              ELSE r = NoStack

\* C19: detectTechStack answers with the stack of the first of package.json,
\* requirements.txt and go.mod that can be read and parsed; a manifest that is
\* missing or malformed is passed over without an error, and the answer is
\* none only when none of the three gives a stack.
DetectFirstUsableManifest ==
    DetectReturned => FirstUsableManifest(call.tree, ret.value)

DetectSkipsMalformedPackage ==
    /\ DetectReturned
    /\ Readable(call.tree, "package.json")
    /\ ~WellFormedPackage(call.tree)
    /\ Readable(call.tree, "requirements.txt")
    /\ Readable(call.tree, "go.mod")
    /\ IsStackOf(ret.value, "Python", "requirements.txt")
    /\ Len(ret.value.dependencies) > 0


(***************************************************************************)
(* Properties of the specificity score                                     *)
(***************************************************************************)
ScoredTwice == ret.fn = "scoreVibe twice"

\* the points of the specificity signals other than length
FeaturePoints(prompt) ==
    (IF HasFileExt(prompt) THEN 10 ELSE 0)
    + (IF HasCodeNoun(prompt) THEN 5 ELSE 0)
    + (IF HasLineRef(prompt) THEN 5 ELSE 0)

TierTable(n) ==
    IF n <= 50 THEN 0 ELSE IF n <= 100 THEN 2 ELSE IF n <= 200 THEN 5 ELSE 10

LengthRule(short, long, a, b) ==
    /\ ~a.threw /\ ~b.threw
    /\ a.specificity = TierTable(Len(short)) + FeaturePoints(short)
    /\ b.specificity = TierTable(Len(long)) + FeaturePoints(long)
    /\ (FeaturePoints(short) = FeaturePoints(long) => a.specificity <= b.specificity)

\* C20: the length of a prompt contributes 0 to specificity up to 50
\* characters, 2 from 51 to 100, 5 from 101 to 200 and 10 above 200, so of two
\* prompts with the same other signals the longer one never has the lower
\* specificity.
SpecificityMonotoneInLength ==
    ScoredTwice =>
        LengthRule(PadTo(call.base, call.from), PadTo(call.base, call.to),
                   ret.shorter, ret.longer)

SpecificityGrewAcrossTiers ==
    /\ ScoredTwice
    /\ Len(PadTo(call.base, call.from)) = 50
    /\ Len(PadTo(call.base, call.to)) = 201
    /\ FeaturePoints(call.base) > 0
    /\ FeaturePoints(PadTo(call.base, call.from)) = FeaturePoints(PadTo(call.base, call.to))
    /\ ret.longer.specificity = ret.shorter.specificity + 10


(***************************************************************************)
(* Properties of keyword extraction                                        *)
(***************************************************************************)
\* a token of t is a longest stretch without white space: where the token
\* that starts at i ends
TokenStopsAt(t, i) ==
    CHOOSE j \in i..Len(t) :
        /\ \A k \in i..j : ~IsWs(At(t, k))
        /\ (j = Len(t) \/ IsWs(At(t, j + 1)))

\* the places where the tokens of t that count as keywords start and end
KeywordSpots(t) ==
    {sp \in {<<i, TokenStopsAt(t, i)>> :
                i \in {k \in 1..Len(t) :
                          ~IsWs(At(t, k)) /\ (k = 1 \/ IsWs(At(t, k - 1)))}} :
        /\ sp[2] - sp[1] + 1 >= 3
        /\ SubSeq(t, sp[1], sp[2]) \notin STOP_WORDS}

FirstSpot(t, spots, w) ==
    CHOOSE i \in 1..Len(t) :
        /\ \E sp \in spots : sp[1] = i /\ SubSeq(t, sp[1], sp[2]) = w
        /\ \A sp \in spots : SubSeq(t, sp[1], sp[2]) = w => sp[1] >= i

DistinctTokensInOrder(t, spots, kws) ==
    /\ \A a, b \in 1..Len(kws) : a # b => kws[a] # kws[b]
    /\ \A a \in 1..Len(kws) : \E sp \in spots : SubSeq(t, sp[1], sp[2]) = kws[a]
    /\ \A sp \in spots : \E a \in 1..Len(kws) : kws[a] = SubSeq(t, sp[1], sp[2])
    /\ \A a, b \in 1..Len(kws) :
        a < b => FirstSpot(t, spots, kws[a]) < FirstSpot(t, spots, kws[b])

KeywordText(query) == stripPunctuation(toLowerCase(query))

\* C21: the keywords are the distinct tokens of the lower-cased text with its
\* punctuation blanked that have three characters or more and are no stop
\* words, each once, in the order of their first occurrence; a second run on
\* the same text gives the same sequence.
KeywordsDistinctInOrder ==
    SuggestReturned =>
        /\ DistinctTokensInOrder(KeywordText(call.query),
                                 KeywordSpots(KeywordText(call.query)),
                                 ret.value.keywords)
        /\ ("again" \in DOMAIN ret => ret.again.keywords = ret.value.keywords)

KeywordsRepeatedInQuery ==
    /\ SuggestReturned
    /\ "again" \in DOMAIN ret
    /\ Len(ret.value.keywords) >= 3
    /\ Cardinality(KeywordSpots(KeywordText(call.query))) > Len(ret.value.keywords)
    /\ KeywordText(call.query) # call.query


(***************************************************************************)
(* Properties of the refine report                                         *)
(***************************************************************************)
\* request p is a finished refine_vibe_prompt that returned its report
RefineAnswered(p) ==
    /\ pc[p] = "done"
    /\ req[p].kind = "refine_vibe_prompt"
    /\ resp[p].type = "text"

AllThreeIssues == << "Too Short", "No File References", "No Acceptance Criteria" >>

\* C22: the report of refine_vibe_prompt for "fix the login page", sent
\* without a project root and without a persona, lists the three quality
\* issues (too short, no file references, no acceptance criteria) and shows a
\* total of at most 20 with the badge of the lowest tier.
LoginPageReportIsLazy ==
    \A p \in Procs :
        (/\ RefineAnswered(p)
         /\ PromptText(req[p].parts) = "fix the login page"
         /\ req[p].persona = None)
        => /\ resp[p].text.issues = AllThreeIssues
           /\ resp[p].text.vibeScore <= 20
           /\ resp[p].text.breakdown.badge = "LAZY"

LoginPageReportReturned ==
    \E p \in Procs :
        /\ RefineAnswered(p)
        /\ PromptText(req[p].parts) = "fix the login page"
        /\ req[p].persona = None
        /\ resp[p].text.vibeScore = 15
        /\ Len(resp[p].text.recommendedContext) > 0


(***************************************************************************)
(* Properties of scanProjectFiles                                          *)
(***************************************************************************)
ScanReturned == ret.fn = "scanProjectFiles"

\* the names between the "/" of a path
RECURSIVE PathNames(_)
PathNames(fp) ==
    IF \E i \in 1..Len(fp) : At(fp, i) = "/"
    THEN << SubSeq(fp, 1, (CHOOSE i \in 1..Len(fp) :
                              At(fp, i) = "/" /\ \A j \in 1..(i - 1) : At(fp, j) # "/") - 1) >>
         \o PathNames(SubSeq(fp, (CHOOSE i \in 1..Len(fp) :
                              At(fp, i) = "/" /\ \A j \in 1..(i - 1) : At(fp, j) # "/") + 1,
                             Len(fp)))
    ELSE << fp >>

\* names leads from directory dir through directories to a file
RECURSIVE LeadsToFile(_, _, _)
LeadsToFile(dir, names, i) ==
    /\ dir.readable
    /\ \E k \in 1..Len(dir.entries) :
        /\ dir.entries[k].name = names[i]
        /\ IF i = Len(names) THEN dir.entries[k].type = "file"
           ELSE /\ dir.entries[k].type = "dir"
                /\ LeadsToFile(dir.entries[k].dir, names, i + 1)

endsWith(s, w) == Len(w) <= Len(s) /\ SubSeq(s, Len(s) - Len(w) + 1, Len(s)) = w

\* the limits in force: those of the configuration, else the defaults
LimitOf(config, f) ==
    IF f \in DOMAIN config /\ config[f] # 0 THEN config[f] ELSE DEFAULT_CONFIG[f]

ListOf(config, f) == IF f \in DOMAIN config THEN config[f] ELSE DEFAULT_CONFIG[f]

PathWithinBounds(tree, config, names) ==
    /\ \A i \in 1..Len(names) : names[i] \notin {"", ".", ".."}
    /\ LeadsToFile(tree, names, 1)
    /\ Len(names) - 1 <= LimitOf(config, "maxScanDepth")
    /\ \A i \in 1..(Len(names) - 1) :
        names[i] \notin ListOf(config, "ignoredDirs") /\ ~startsWith(names[i], ".")

NoIgnoredExtension(config, fp) ==
    \A e \in ListOf(config, "ignoredExtensions") : ~endsWith(toLowerCase(fp), e)

\* C23: scanProjectFiles returns at most maxScanFiles paths; each is the
\* relative path of a file under the root reached through directories only,
\* at most maxScanDepth directories down, through no ignored and no
\* dot-prefixed directory, and none ends in an ignored extension.
ScanStaysWithinBounds ==
    ScanReturned =>
        /\ Len(ret.value) <= LimitOf(call.config, "maxScanFiles")
        /\ \A i \in 1..Len(ret.value) :
            /\ PathWithinBounds(call.tree, call.config, PathNames(ret.value[i]))
            /\ NoIgnoredExtension(call.config, ret.value[i])


(***************************************************************************)
(* Properties of the persona alignment                                     *)
(***************************************************************************)
AlignReturned == ret.fn = "scoreVibe persona" /\ ~ret.value.threw

\* lc[a..b] is a whole word of lc: a run without white space that white
\* space or the ends of the text enclose
WholeWord(lc, a, b) ==
    /\ a <= b
    /\ \A k \in a..b : ~IsWs(At(lc, k))
    /\ (a = 1 \/ IsWs(At(lc, a - 1)))
    /\ (b = Len(lc) \/ IsWs(At(lc, b + 1)))

\* the ends of the whole words of lc that are longer than four characters
\* and occur in pl
LongWordsIn(lc, pl) ==
    { ab \in (1..Len(lc)) \X (1..Len(lc)) :
        /\ ab[2] - ab[1] + 1 > 4
        /\ WholeWord(lc, ab[1], ab[2])
        /\ includes(pl, SubSeq(lc, ab[1], ab[2])) }

AlignedConstraints(constraints, pl) ==
    { i \in 1..Len(constraints) : LongWordsIn(toLowerCase(constraints[i]), pl) # {} }

CalledPersona == resolvePersona(loadConfig(call.rc), call.personaKey)

\* C24: personaAlignment is min(20, 3 x the number of constraints of the
\* resolved persona that have a word longer than four characters occurring
\* in the lower-cased prompt); a constraint counts once however many of its
\* words occur.
AlignmentCountsConstraintsOnce ==
    AlignReturned =>
        ret.value.personaAlignment =
            Min(20, 3 * Cardinality(AlignedConstraints(CalledPersona.expertConstraints,
                                                       toLowerCase(call.prompt))))

\* a constraint matched by several of its words, and a prompt that matches
\* more constraints than the cap pays for
AlignmentSeveralWordsAndCap ==
    /\ AlignReturned
    /\ \/ /\ ret.value.personaAlignment = 3
          /\ \E i \in AlignedConstraints(CalledPersona.expertConstraints,
                                         toLowerCase(call.prompt)) :
                Cardinality(LongWordsIn(toLowerCase(CalledPersona.expertConstraints[i]),
                                        toLowerCase(call.prompt))) > 1
       \/ /\ ret.value.personaAlignment = 20
          /\ Cardinality(AlignedConstraints(CalledPersona.expertConstraints,
                                            toLowerCase(call.prompt))) > 7


(***************************************************************************)
(* Properties of the sections of the refine report                         *)
(***************************************************************************)
RefineReturned == ret.fn = "refinePrompt" /\ ~ret.value.threw

\* the sections a report can have, in the order the claim gives
SectionOrder == <<
    "Header", "Security Alert", "Vibe Score", "Expert Constraints", "Coding Standards",
    "Tech Stack", "Dependency Check", "Recommended Context", "Quality Issues",
    "Original Prompt", "Refined Instruction" >>

SectionRank(name) == CHOOSE k \in 1..Len(SectionOrder) : SectionOrder[k] = name

FlagRank(flag) == CHOOSE k \in 1..Len(SECURITY_PATTERNS) : SECURITY_PATTERNS[k].flag = flag

SectionsOf(report) == { report.sections[i] : i \in 1..Len(report.sections) }

\* C25: the security-alert block is in the report exactly when
\* securityCheck(prompt) is non-empty; it then follows the header directly,
\* precedes the score breakdown and lists the flags in catalog order; the
\* other sections come in the fixed order, the optional ones in their place.
AlertBlockPlacedAfterHeader ==
    RefineReturned =>
        /\ ("Security Alert" \in SectionsOf(ret.value)) = (securityCheck(call.prompt) # <<>>)
        /\ ret.value.securityAlert = securityCheck(call.prompt)
        /\ \A i, j \in 1..Len(ret.value.securityAlert) :
              i < j => FlagRank(ret.value.securityAlert[i]) < FlagRank(ret.value.securityAlert[j])
        /\ SectionsOf(ret.value) \subseteq { SectionOrder[k] : k \in 1..Len(SectionOrder) }
        /\ \A i, j \in 1..Len(ret.value.sections) :
              i < j => SectionRank(ret.value.sections[i]) < SectionRank(ret.value.sections[j])
        /\ ret.value.sections[1] = "Header"
        /\ {"Vibe Score", "Expert Constraints", "Coding Standards",
            "Original Prompt", "Refined Instruction"} \subseteq SectionsOf(ret.value)

\* a report with several flags and every optional section
AlertBlockAmongAllSections ==
    /\ RefineReturned
    /\ Len(ret.value.securityAlert) > 1
    /\ ret.value.sections[2] = "Security Alert"
    /\ Len(ret.value.sections) = Len(SectionOrder)


(***************************************************************************)
(* Quality issues against the scoring signals                              *)
(***************************************************************************)
IssuesOf(report) == { report.issues[i] : i \in 1..Len(report.issues) }

\* C26: each quality issue of the report is raised exactly when the scoring
\* signal of the same name earns nothing: "Too Short" iff the length tier
\* adds 0 to specificity, "No File References" iff the file-extension
\* signal is absent, "No Acceptance Criteria" iff the acceptance-word signal
\* is absent.
IssuesMirrorScoringSignals ==
    RefineReturned =>
        /\ ("Too Short" \in IssuesOf(ret.value)) = (LengthTier(call.prompt) = 0)
        /\ ("No File References" \in IssuesOf(ret.value)) = ~HasFileExt(call.prompt)
        /\ ("No Acceptance Criteria" \in IssuesOf(ret.value)) = ~HasExpectation(call.prompt)


(***************************************************************************)
(* File-match tier against the recommended files                           *)
(***************************************************************************)
\* the points of the context score that the three prompt signals explain
PromptContextPoints(prompt) ==
    (IF HasCodeFence(prompt) THEN 10 ELSE 0)
    + (IF HasErrorTerm(prompt) THEN 5 ELSE 0)
    + (IF HasImport(prompt) THEN 5 ELSE 0)

\* the tier the claim assigns to a number of recommended files
TierOfCount(n) == IF n > 5 THEN 15 ELSE IF n > 0 THEN 10 ELSE 0

\* C28: within one refine call on an unchanged project, the file-match tier
\* inside the context score agrees with the number of files under
\* Recommended Context: 15 for more than five, 10 for one to five, 0 for
\* none, whatever .vibecheckrc holds.
TierAgreesWithRecommendedFiles ==
    (RefineReturned /\ IsSome(call.projectRoot)) =>
        ret.value.breakdown.contextAvailability =
            Min(30, TierOfCount(Len(ret.value.recommendedContext))
                    + PromptContextPoints(call.prompt))


(***************************************************************************)
(* Properties of folding feedback into a prompt                            *)
(***************************************************************************)
FoldReturned == ret.fn = "scoreVibe folded" /\ ~ret.before.threw /\ ~ret.after.threw

\* C29: scoring the original prompt with the feedback folded in never gives
\* less than scoring the original alone: each of the four sub-scores, and
\* the total, of scoreVibe(original + "\n\n" + feedback) is at least that of
\* scoreVibe(original), persona and project unchanged.
FoldingFeedbackNeverLowers ==
    (ret.fn = "scoreVibe folded") =>
        /\ ret.before.threw = ret.after.threw
        /\ ~ret.before.threw =>
            /\ ret.after.specificity >= ret.before.specificity
            /\ ret.after.contextAvailability >= ret.before.contextAvailability
            /\ ret.after.acceptanceCriteria >= ret.before.acceptanceCriteria
            /\ ret.after.personaAlignment >= ret.before.personaAlignment
            /\ ret.after.total >= ret.before.total

\* feedback that raises all four sub-scores of a prompt that had points
FoldingRaisedEverySubScore ==
    /\ FoldReturned
    /\ ret.before.total > 0
    /\ ret.after.specificity > ret.before.specificity
    /\ ret.after.contextAvailability > ret.before.contextAvailability
    /\ ret.after.acceptanceCriteria > ret.before.acceptanceCriteria
    /\ ret.after.personaAlignment > ret.before.personaAlignment


(***************************************************************************)
(* Properties of refinement_loop                                           *)
(***************************************************************************)
LoopReturned == ret.fn = "refineWithFeedback" /\ ~ret.value.threw

\* what the V2 report and its entry are computed from: the original prompt
\* followed by an empty line and the feedback
LoopReportFromCombined ==
    LoopReturned =>
        \E combined \in {call.original \o "\n\n" \o call.feedback},
           config \in {loadConfig(call.disk.rc)} :
            /\ ret.value.vibeScore =
                   scoreVibe(combined, call.personaKey, Some(ResolvedRoot), call.disk).total
            /\ ret.value.updatedContext =
                   suggestContext(combined, scanProjectFiles(call.disk.tree, config)).matched
            /\ ret.entry.securityFlags = securityCheck(combined)
            /\ ret.value.personaName = resolvePersona(config, call.personaKey).name
            /\ ret.entry.persona = PersonaLabel(call.personaKey)
            /\ ret.entry.rawPrompt = "[V2] " \o call.original
            /\ ret.entry.vibeScore = ret.value.vibeScore
            /\ ret.value.previousContext = includes(call.refined, "Completion Checklist")

\* request p has returned its V2 report and no logHistory call is under way
LoopAnswered(p) ==
    /\ pc[p] = "done"
    /\ req[p].kind = "refinement_loop"
    /\ resp[p].type = "text"
    /\ fault = "none"
    /\ \A q \in Procs : pc[q] \in {"idle", "run", "done"}

\* C27: a refinement_loop request scores, ranks files and computes security
\* flags on the original prompt joined with the feedback, uses the persona
\* the request names, shows the note on the earlier report exactly when
\* that report contains the checklist heading, and leaves in the history
\* one entry whose rawPrompt is the original prompt with the iteration tag.
LoopLogsOneTaggedEntry ==
    \A p \in Procs :
        LoopAnswered(p) =>
            \E original \in {PromptText(req[p].parts)} :
            \E combined \in {original \o "\n\n" \o Feedback} :
                /\ resp[p].text.vibeScore =
                       scoreVibe(combined, req[p].persona, Some(ResolvedRoot), disk).total
                /\ resp[p].text.updatedContext =
                       suggestContext(combined,
                           scanProjectFiles(disk.tree, loadConfig(disk.rc))).matched
                /\ resp[p].text.personaName =
                       resolvePersona(loadConfig(disk.rc), req[p].persona).name
                /\ resp[p].text.previousContext = includes(RefinedBefore, "Completion Checklist")
                /\ histFile.kind = "array"
                /\ Cardinality({ i \in 1..Len(histFile.entries) :
                       /\ histFile.entries[i].timestamp = loc[p].entry.timestamp
                       /\ histFile.entries[i].rawPrompt = "[V2] " \o original
                       /\ histFile.entries[i].securityFlags = securityCheck(combined)
                       /\ histFile.entries[i].vibeScore = resp[p].text.vibeScore }) = 1


(***************************************************************************)
(* The logged score against the reported score (checked under SpecRace)    *)
(***************************************************************************)
\* C30: the vibeScore of the history entry that a refine_vibe_prompt request
\* builds equals the total in the header of the report the same request
\* returns, whatever other requests do between its two scoring passes.
LoggedScoreIsReportedScore ==
    \A p \in Procs :
        (/\ pc[p] = "done"
         /\ req[p].kind = "refine_vibe_prompt"
         /\ resp[p].type = "text")
        => loc[p].entry.vibeScore = resp[p].text.vibeScore

====
